---------------------------- MODULE Spec2Model ----------------------------
(***************************************************************************)
(* A model of the network-builder query engine (class NetworkBuilder) and  *)
(* of the snapshot loader that feeds it.                                   *)
(*                                                                         *)
(* JavaScript strings are sequences of code units, each a one-character    *)
(* string or, where a TLA+ string cannot hold the character, its name      *)
(* "U+" and four hexadecimal digits; a number is an integer, a boolean a   *)
(* BOOLEAN and an object a record that holds the list of its entries, so   *)
(* that the empty object is not the empty string.  So toLowerCase, trim,   *)
(* includes, typeof and String(value) are computed and not assumed.  Node  *)
(* identifiers, node types and edge types are compared only for equality   *)
(* by the code and stay atomic.  The node objects of the                   *)
(* snapshot live in allNodes; a FilteredGraph holds references to them     *)
(* (their identifiers), as the code returns the snapshot's own objects.    *)
(***************************************************************************)
EXTENDS Integers, Sequences, FiniteSets, TLC

(***************************************************************************)
(* Bounds of the model.                                                    *)
(***************************************************************************)
MaxCalls == 2
MaxDepth == 1
MaxNeighbors == 1
MaxTotal == 3
MaxLinks == 2
MaxLayers == 3
MaxLoads == 3

(***************************************************************************)
(* The query state (NetworkBuilderState) and the search part of it.        *)
(***************************************************************************)
\* what a caller holds before any call
NoCall == [op |-> "none"]

Search(searchTerms, searchFields, searchLogic) ==
  [searchTerms |-> searchTerms, searchFields |-> searchFields,
   searchLogic |-> searchLogic]

Query(search, allowedNodeTypes, allowedEdgeTypes, expansionDepth, maxNodesPerExpansion, maxTotalNodes) ==
  [searchTerms |-> search.searchTerms,
   searchFields |-> search.searchFields,
   allowedNodeTypes |-> allowedNodeTypes,
   allowedEdgeTypes |-> allowedEdgeTypes,
   expansionDepth |-> expansionDepth,
   maxNodesPerExpansion |-> maxNodesPerExpansion,
   maxTotalNodes |-> maxTotalNodes]

(***************************************************************************)
(* JavaScript values.                                                      *)
(***************************************************************************)
Undefined == <<"undefined">>
Null == <<"null">>

\* a sequence given as a function on 1..n, as the list of its values
AsList(f) == SubSeq(f, 1, Len(f))

\* v is undefined or null, whatever kind of value v is
IsNullish(v) == ToString(v) \in {ToString(Undefined), ToString(Null)}

\* the characters of an atom
Chars(atom) == AsList([i \in 1..Len(atom) |-> SubSeq(atom, i, i)])

\* typeof v === 'string'
IsString(v) ==
  LET shown == ToString(v)
  IN ~ IsNullish(v) /\ (shown = "<<>>" \/ (Len(shown) > 2 /\ SubSeq(shown, 1, 3) = "<<\""))

\* an object literal, given by its entries in the order they were written
Object(entries) == [entries |-> entries]

\* typeof v === 'object' of a value that is not null
IsObject(v) == SubSeq(ToString(v), 1, 1) = "["

\* typeof v === 'number'
IsNumber(v) ==
  SubSeq(ToString(v), 1, 1) \in {"-", "0", "1", "2", "3", "4", "5", "6", "7", "8", "9"}

\* the operands of || that are skipped: undefined, null, the empty string, 0
\* and false
Falsy(v) == IsNullish(v) \/ ToString(v) \in {"<<>>", "0", "FALSE"}

OrElse(a, b) == IF Falsy(a) THEN b ELSE a

(***************************************************************************)
(* String.prototype.toLowerCase: the case mappings of Unicode 17, the      *)
(* capital sigma by its place in the word.                                 *)
(***************************************************************************)
\* a code unit that a TLA+ string cannot hold (those above U+00FF, the grave
\* accent U+0060) is written by its name, "U+" and four hexadecimal digits;
\* any other code unit is the character itself
IsToken(c) == Len(c) = 6

RECURSIVE HexNumber(_)
\* the number that the hexadecimal digits h write
HexNumber(h) ==
  IF Len(h) = 0 THEN 0
  ELSE 16 * HexNumber(SubSeq(h, 1, Len(h) - 1))
       + (CHOOSE n \in 0..15 :
            SubSeq("0123456789ABCDEF", n + 1, n + 1) = SubSeq(h, Len(h), Len(h)))

\* the number of a named code unit
CodeOf(c) == HexNumber(SubSeq(c, 3, 6))

\* the name of the code unit n
TokenOf(n) ==
  LET Digit(k) == SubSeq("0123456789ABCDEF", k + 1, k + 1)
  IN "U+" \o Digit(n \div 4096) \o Digit((n \div 256) % 16) \o Digit((n \div 16) % 16)
          \o Digit(n % 16)

\* a high surrogate (U+D800..U+DBFF) followed by a low one (U+DC00..U+DFFF)
IsPair(high, low) ==
  /\ IsToken(high) /\ SubSeq(high, 3, 4) \in {"D8", "D9", "DA", "DB"}
  /\ IsToken(low) /\ SubSeq(low, 3, 4) \in {"DC", "DD", "DE", "DF"}

\* the code point a surrogate pair encodes
CodePoint(high, low) == 65536 + (CodeOf(high) - 55296) * 1024 + (CodeOf(low) - 56320)

\* the code units of a code point from U+0100 on
CodeUnits(point) ==
  IF point < 65536 THEN <<TokenOf(point)>>
  ELSE <<TokenOf(55296 + ((point - 65536) \div 1024)), TokenOf(56320 + ((point - 65536) % 1024))>>

\* a table written as records of hexadecimal digits, five to a code point,
\* as the sequence of its records, each the numbers of its fields
HexTable(text, fields) ==
  LET width == 5 * fields
  IN [k \in 1..(Len(text) \div width) |->
        [f \in 1..fields |->
           HexNumber(SubSeq(text, width * (k - 1) + 5 * f - 4, width * (k - 1) + 5 * f))]]

\* String.prototype.toLowerCase on the code units below U+0100
UpperToLower ==
  LET upper == "ABCDEFGHIJKLMNOPQRSTUVWXYZÀÁÂÃÄÅÆÇÈÉÊËÌÍÎÏÐÑÒÓÔÕÖØÙÚÛÜÝÞ"
      lower == "abcdefghijklmnopqrstuvwxyzàáâãäåæçèéêëìíîïðñòóôõöøùúûüýþ"
  IN [c \in {SubSeq(upper, i, i) : i \in 1..Len(upper)} |->
        LET place == CHOOSE i \in 1..Len(upper) : SubSeq(upper, i, i) = c
        IN SubSeq(lower, place, place)]

\* the code units above U+00FF whose lower case is not one code unit above
\* U+00FF
LowerSpecial ==
  ("U+0130" :> <<"i", "U+0307">>) @@ ("U+0178" :> <<"ÿ">>) @@ ("U+1E9E" :> <<"ß">>)
  @@ ("U+212A" :> <<"k">>) @@ ("U+212B" :> <<"å">>)

\* the other code points that have a lower case, as runs: first and last
\* code point, lower case of the first, step
LowerRuns ==
  HexTable("001000012E00101000020013200136001330000200139001470013A000020014A001760014B00002"
           \o "001790017D0017A00002001810018100253000010018200184001830000200186001860025400001"
           \o "00187001870018800001001890018A00256000010018B0018B0018C000010018E0018E001DD00001"
           \o "0018F0018F002590000100190001900025B000010019100191001920000100193001930026000001"
           \o "00194001940026300001001960019600269000010019700197002680000100198001980019900001"
           \o "0019C0019C0026F000010019D0019D00272000010019F0019F0027500001001A0001A4001A100002"
           \o "001A6001A60028000001001A7001A7001A800001001A9001A90028300001001AC001AC001AD00001"
           \o "001AE001AE0028800001001AF001AF001B000001001B1001B20028A00001001B3001B5001B400002"
           \o "001B7001B70029200001001B8001B8001B900001001BC001BC001BD00001001C4001C4001C600001"
           \o "001C5001C5001C600001001C7001C7001C900001001C8001C8001C900001001CA001CA001CC00001"
           \o "001CB001DB001CC00002001DE001EE001DF00002001F1001F1001F300001001F2001F4001F300002"
           \o "001F6001F60019500001001F7001F7001BF00001001F80021E001F90000200220002200019E00001"
           \o "002220023200223000020023A0023A02C65000010023B0023B0023C000010023D0023D0019A00001"
           \o "0023E0023E02C6600001002410024100242000010024300243001800000100244002440028900001"
           \o "00245002450028C00001002460024E00247000020037000372003710000200376003760037700001"
           \o "0037F0037F003F3000010038600386003AC00001003880038A003AD000010038C0038C003CC00001"
           \o "0038E0038F003CD0000100391003A1003B100001003A3003AB003C300001003CF003CF003D700001"
           \o "003D8003EE003D900002003F4003F4003B800001003F7003F7003F800001003F9003F9003F200001"
           \o "003FA003FA003FB00001003FD003FF0037B00001004000040F0045000001004100042F0043000001"
           \o "004600048000461000020048A004BE0048B00002004C0004C0004CF00001004C1004CD004C200002"
           \o "004D00052E004D10000200531005560056100001010A0010C502D0000001010C7010C702D2700001"
           \o "010CD010CD02D2D00001013A0013EF0AB7000001013F0013F5013F80000101C8901C8901C8A00001"
           \o "01C9001CBA010D00000101CBD01CBF010FD0000101E0001E9401E010000201EA001EFE01EA100002"
           \o "01F0801F0F01F000000101F1801F1D01F100000101F2801F2F01F200000101F3801F3F01F3000001"
           \o "01F4801F4D01F400000101F5901F5F01F510000201F6801F6F01F600000101F8801F8F01F8000001"
           \o "01F9801F9F01F900000101FA801FAF01FA00000101FB801FB901FB00000101FBA01FBB01F7000001"
           \o "01FBC01FBC01FB30000101FC801FCB01F720000101FCC01FCC01FC30000101FD801FD901FD000001"
           \o "01FDA01FDB01F760000101FE801FE901FE00000101FEA01FEB01F7A0000101FEC01FEC01FE500001"
           \o "01FF801FF901F780000101FFA01FFB01F7C0000101FFC01FFC01FF3000010212602126003C900001"
           \o "02132021320214E00001021600216F021700000102183021830218400001024B6024CF024D000001"
           \o "02C0002C2F02C300000102C6002C6002C610000102C6202C620026B0000102C6302C6301D7D00001"
           \o "02C6402C640027D0000102C6702C6B02C680000202C6D02C6D002510000102C6E02C6E0027100001"
           \o "02C6F02C6F002500000102C7002C70002520000102C7202C7202C730000102C7502C7502C7600001"
           \o "02C7E02C7F0023F0000102C8002CE202C810000202CEB02CED02CEC0000202CF202CF202CF300001"
           \o "0A6400A66C0A641000020A6800A69A0A681000020A7220A72E0A723000020A7320A76E0A73300002"
           \o "0A7790A77B0A77A000020A77D0A77D01D79000010A77E0A7860A77F000020A78B0A78B0A78C00001"
           \o "0A78D0A78D00265000010A7900A7920A791000020A7960A7A80A797000020A7AA0A7AA0026600001"
           \o "0A7AB0A7AB0025C000010A7AC0A7AC00261000010A7AD0A7AD0026C000010A7AE0A7AE0026A00001"
           \o "0A7B00A7B00029E000010A7B10A7B100287000010A7B20A7B20029D000010A7B30A7B30AB5300001"
           \o "0A7B40A7C20A7B5000020A7C40A7C40A794000010A7C50A7C500282000010A7C60A7C601D8E00001"
           \o "0A7C70A7C90A7C8000020A7CB0A7CB00264000010A7CC0A7DA0A7CD000020A7DC0A7DC0019B00001"
           \o "0A7F50A7F50A7F6000010FF210FF3A0FF410000110400104271042800001104B0104D3104D800001"
           \o "105701057A10597000011057C1058A105A3000011058C10592105B3000011059410595105BB00001"
           \o "10C8010CB210CC00000110D5010D6510D7000001118A0118BF118C00000116E4016E5F16E6000001"
           \o "16EA016EB816EBB000011E9001E9211E92200001", 4)

\* the cased letters below U+0100 that are not case-ignorable
Cased1 ==
  LET text == "ABCDEFGHIJKLMNOPQRSTUVWXYZabcdefghijklmnopqrstuvwxyzªµºÀÁÂÃÄÅÆÇÈÉÊËÌÍÎÏÐÑÒÓÔÕÖØÙÚÛÜÝÞßàáâãäåæçèéêëìíîïðñòóôõöøùúûüýþÿ"
  IN {SubSeq(text, i, i) : i \in 1..Len(text)}

\* the cased letters from U+0100 on that are not case-ignorable, written as
\* ranges: first and last code point
CasedRanges ==
  LET ranges ==
        HexTable("00100001BA001BC001BF001C40029300296002AF003700037300376003770037B0037D0037F0037F"
                 \o "0038600386003880038A0038C0038C0038E003A1003A3003F5003F7004810048A0052F0053100556"
                 \o "0056000588010A0010C5010C7010C7010CD010CD010D0010FA010FD010FF013A0013F5013F8013FD"
                 \o "01C8001C8A01C9001CBA01CBD01CBF01D0001D2B01D6B01D7701D7901D9A01E0001F1501F1801F1D"
                 \o "01F2001F4501F4801F4D01F5001F5701F5901F5901F5B01F5B01F5D01F5D01F5F01F7D01F8001FB4"
                 \o "01FB601FBC01FBE01FBE01FC201FC401FC601FCC01FD001FD301FD601FDB01FE001FEC01FF201FF4"
                 \o "01FF601FFC021020210202107021070210A021130211502115021190211D02124021240212602126"
                 \o "02128021280212A0212D0212F0213402139021390213C0213F02145021490214E0214E021600217F"
                 \o "0218302184024B6024E902C0002C7B02C7E02CE402CEB02CEE02CF202CF302D0002D2502D2702D27"
                 \o "02D2D02D2D0A6400A66D0A6800A69B0A7220A76F0A7710A7870A78B0A78E0A7900A7DC0A7F50A7F6"
                 \o "0A7FA0A7FA0AB300AB5A0AB600AB680AB700ABBF0FB000FB060FB130FB170FF210FF3A0FF410FF5A"
                 \o "104001044F104B0104D3104D8104FB105701057A1057C1058A1058C10592105941059510597105A1"
                 \o "105A3105B1105B3105B9105BB105BC10C8010CB210CC010CF210D5010D6510D7010D85118A0118DF"
                 \o "16E4016E7F16EA016EB816EBB16ED31D4001D4541D4561D49C1D49E1D49F1D4A21D4A21D4A51D4A6"
                 \o "1D4A91D4AC1D4AE1D4B91D4BB1D4BB1D4BD1D4C31D4C51D5051D5071D50A1D50D1D5141D5161D51C"
                 \o "1D51E1D5391D53B1D53E1D5401D5441D5461D5461D54A1D5501D5521D6A51D6A81D6C01D6C21D6DA"
                 \o "1D6DC1D6FA1D6FC1D7141D7161D7341D7361D74E1D7501D76E1D7701D7881D78A1D7A81D7AA1D7C2"
                 \o "1D7C41D7CB1DF001DF091DF0B1DF1E1DF251DF2A1E9001E9431F1301F1491F1501F1691F1701F189", 2)
  IN UNION {ranges[k][1]..ranges[k][2] : k \in DOMAIN ranges}

\* the case-ignorable characters below U+0100 but the grave accent
CaseIgnorable1 ==
  LET text == "'.:^¨­¯´·¸"
  IN {SubSeq(text, i, i) : i \in 1..Len(text)}

\* the case-ignorable code points written by name, written as ranges
CaseIgnorableRanges ==
  LET ranges ==
        HexTable("0006000060002B00036F00374003750037A0037A0038400385003870038700483004890055900559"
                 \o "0055F0055F00591005BD005BF005BF005C1005C2005C4005C5005C7005C7005F4005F40060000605"
                 \o "006100061A0061C0061C00640006400064B0065F0067000670006D6006DD006DF006E8006EA006ED"
                 \o "0070F0070F0071100711007300074A007A6007B0007EB007F5007FA007FA007FD007FD008160082D"
                 \o "008590085B00888008880089000891008970089F008C9009020093A0093A0093C0093C0094100948"
                 \o "0094D0094D0095100957009620096300971009710098100981009BC009BC009C1009C4009CD009CD"
                 \o "009E2009E3009FE009FE00A0100A0200A3C00A3C00A4100A4200A4700A4800A4B00A4D00A5100A51"
                 \o "00A7000A7100A7500A7500A8100A8200ABC00ABC00AC100AC500AC700AC800ACD00ACD00AE200AE3"
                 \o "00AFA00AFF00B0100B0100B3C00B3C00B3F00B3F00B4100B4400B4D00B4D00B5500B5600B6200B63"
                 \o "00B8200B8200BC000BC000BCD00BCD00C0000C0000C0400C0400C3C00C3C00C3E00C4000C4600C48"
                 \o "00C4A00C4D00C5500C5600C6200C6300C8100C8100CBC00CBC00CBF00CBF00CC600CC600CCC00CCD"
                 \o "00CE200CE300D0000D0100D3B00D3C00D4100D4400D4D00D4D00D6200D6300D8100D8100DCA00DCA"
                 \o "00DD200DD400DD600DD600E3100E3100E3400E3A00E4600E4E00EB100EB100EB400EBC00EC600EC6"
                 \o "00EC800ECE00F1800F1900F3500F3500F3700F3700F3900F3900F7100F7E00F8000F8400F8600F87"
                 \o "00F8D00F9700F9900FBC00FC600FC60102D010300103201037010390103A0103D0103E0105801059"
                 \o "0105E010600107101074010820108201085010860108D0108D0109D0109D010FC010FC0135D0135F"
                 \o "0171201714017320173301752017530177201773017B4017B5017B7017BD017C6017C6017C9017D3"
                 \o "017D7017D7017DD017DD0180B0180F01843018430188501886018A9018A901920019220192701928"
                 \o "0193201932019390193B01A1701A1801A1B01A1B01A5601A5601A5801A5E01A6001A6001A6201A62"
                 \o "01A6501A6C01A7301A7C01A7F01A7F01AA701AA701AB001ADD01AE001AEB01B0001B0301B3401B34"
                 \o "01B3601B3A01B3C01B3C01B4201B4201B6B01B7301B8001B8101BA201BA501BA801BA901BAB01BAD"
                 \o "01BE601BE601BE801BE901BED01BED01BEF01BF101C2C01C3301C3601C3701C7801C7D01CD001CD2"
                 \o "01CD401CE001CE201CE801CED01CED01CF401CF401CF801CF901D2C01D6A01D7801D7801D9B01DFF"
                 \o "01FBD01FBD01FBF01FC101FCD01FCF01FDD01FDF01FED01FEF01FFD01FFE0200B0200F0201802019"
                 \o "020240202402027020270202A0202E0206002064020660206F02071020710207F0207F020900209C"
                 \o "020D0020F002C7C02C7D02CEF02CF102D6F02D6F02D7F02D7F02DE002DFF02E2F02E2F0300503005"
                 \o "0302A0302D03031030350303B0303B030990309E030FC030FE0A0150A0150A4F80A4FD0A60C0A60C"
                 \o "0A66F0A6720A6740A67D0A67F0A67F0A69C0A69F0A6F00A6F10A7000A7210A7700A7700A7880A78A"
                 \o "0A7F10A7F40A7F80A7F90A8020A8020A8060A8060A80B0A80B0A8250A8260A82C0A82C0A8C40A8C5"
                 \o "0A8E00A8F10A8FF0A8FF0A9260A92D0A9470A9510A9800A9820A9B30A9B30A9B60A9B90A9BC0A9BD"
                 \o "0A9CF0A9CF0A9E50A9E60AA290AA2E0AA310AA320AA350AA360AA430AA430AA4C0AA4C0AA700AA70"
                 \o "0AA7C0AA7C0AAB00AAB00AAB20AAB40AAB70AAB80AABE0AABF0AAC10AAC10AADD0AADD0AAEC0AAED"
                 \o "0AAF30AAF40AAF60AAF60AB5B0AB5F0AB690AB6B0ABE50ABE50ABE80ABE80ABED0ABED0FB1E0FB1E"
                 \o "0FBB20FBC20FE000FE0F0FE130FE130FE200FE2F0FE520FE520FE550FE550FEFF0FEFF0FF070FF07"
                 \o "0FF0E0FF0E0FF1A0FF1A0FF3E0FF3E0FF400FF400FF700FF700FF9E0FF9F0FFE30FFE30FFF90FFFB"
                 \o "101FD101FD102E0102E0103761037A107801078510787107B0107B2107BA10A0110A0310A0510A06"
                 \o "10A0C10A0F10A3810A3A10A3F10A3F10AE510AE610D2410D2710D4E10D4E10D6910D6D10D6F10D6F"
                 \o "10EAB10EAC10EC510EC510EFA10EFF10F4610F5010F8210F85110011100111038110461107011070"
                 \o "11073110741107F11081110B3110B6110B9110BA110BD110BD110C2110C2110CD110CD1110011102"
                 \o "111271112B1112D1113411173111731118011181111B6111BE111C9111CC111CF111CF1122F11231"
                 \o "112341123411236112371123E1123E1124111241112DF112DF112E3112EA11300113011133B1133C"
                 \o "1134011340113661136C1137011374113BB113C0113CE113CE113D0113D0113D2113D2113E1113E2"
                 \o "114381143F114421144411446114461145E1145E114B3114B8114BA114BA114BF114C0114C2114C3"
                 \o "115B2115B5115BC115BD115BF115C0115DC115DD116331163A1163D1163D1163F11640116AB116AB"
                 \o "116AD116AD116B0116B5116B7116B71171D1171D1171F1171F1172211725117271172B1182F11837"
                 \o "118391183A1193B1193C1193E1193E1194311943119D4119D7119DA119DB119E0119E011A0111A0A"
                 \o "11A3311A3811A3B11A3E11A4711A4711A5111A5611A5911A5B11A8A11A9611A9811A9911B6011B60"
                 \o "11B6211B6411B6611B6611C3011C3611C3811C3D11C3F11C3F11C9211CA711CAA11CB011CB211CB3"
                 \o "11CB511CB611D3111D3611D3A11D3A11D3C11D3D11D3F11D4511D4711D4711D9011D9111D9511D95"
                 \o "11D9711D9711DD911DD911EF311EF411F0011F0111F3611F3A11F4011F4011F4211F4211F5A11F5A"
                 \o "134301344013447134551611E161291612D1612F16AF016AF416B3016B3616B4016B4316D4016D42"
                 \o "16D6B16D6C16F4F16F4F16F8F16F9F16FE016FE116FE316FE416FF216FF31AFF01AFF31AFF51AFFB"
                 \o "1AFFD1AFFE1BC9D1BC9E1BCA01BCA31CF001CF2D1CF301CF461D1671D1691D1731D1821D1851D18B"
                 \o "1D1AA1D1AD1D2421D2441DA001DA361DA3B1DA6C1DA751DA751DA841DA841DA9B1DA9F1DAA11DAAF"
                 \o "1E0001E0061E0081E0181E01B1E0211E0231E0241E0261E02A1E0301E06D1E08F1E08F1E1301E13D"
                 \o "1E2AE1E2AE1E2EC1E2EF1E4EB1E4EF1E5EE1E5EF1E6E31E6E31E6E61E6E61E6EE1E6EF1E6F51E6F5"
                 \o "1E6FF1E6FF1E8D01E8D61E9441E94B1F3FB1F3FFE0001E0001E0020E007FE0100E01EF", 2)
  IN UNION {ranges[k][1]..ranges[k][2] : k \in DOMAIN ranges}

\* the lower case of a code point from U+0100 on that LowerSpecial leaves out
LowerOfCode(point) ==
  LET InRun(run) == /\ run[1] <= point
                    /\ point <= run[2]
                    /\ (point - run[1]) % run[4] = 0
      Lower(runs) == IF runs = <<>> THEN point ELSE point + runs[1][3] - runs[1][1]
  IN Lower(SelectSeq(LowerRuns, InRun))

\* for each code unit of s, what the character it belongs to is to the rule
\* of the final sigma: cased, case-ignorable or neither
Kinds(s) ==
  LET Point(i) ==
        IF i < Len(s) /\ IsPair(s[i], s[i + 1]) THEN CodePoint(s[i], s[i + 1])
        ELSE IF i > 1 /\ IsPair(s[i - 1], s[i]) THEN CodePoint(s[i - 1], s[i])
        ELSE CodeOf(s[i])
      Kind(ignorable, cased) ==
        IF ignorable THEN "ignorable" ELSE IF cased THEN "cased" ELSE "other"
  IN [i \in 1..Len(s) |->
        IF IsToken(s[i])
        THEN LET point == Point(i)
             IN Kind(point \in CaseIgnorableRanges, point \in CasedRanges)
        ELSE Kind(s[i] \in CaseIgnorable1, s[i] \in Cased1)]

RECURSIVE CasedBefore(_, _)
\* going back from i over case-ignorable characters ends at a cased letter
CasedBefore(kinds, i) ==
  IF i < 1 THEN FALSE
  ELSE IF kinds[i] = "ignorable" THEN CasedBefore(kinds, i - 1)
  ELSE kinds[i] = "cased"

RECURSIVE CasedAfter(_, _)
\* going on from i over case-ignorable characters ends at a cased letter
CasedAfter(kinds, i) ==
  IF i > Len(kinds) THEN FALSE
  ELSE IF kinds[i] = "ignorable" THEN CasedAfter(kinds, i + 1)
  ELSE kinds[i] = "cased"

RECURSIVE LowerFrom(_, _, _)
\* the lower case of s from index i on; a capital sigma that ends a word
\* has a lower case of its own
LowerFrom(s, kinds, i) ==
  IF i > Len(s) THEN <<>>
  ELSE IF ~ IsToken(s[i])
  THEN <<IF s[i] \in DOMAIN UpperToLower THEN UpperToLower[s[i]] ELSE s[i]>>
       \o LowerFrom(s, kinds, i + 1)
  ELSE IF i < Len(s) /\ IsPair(s[i], s[i + 1])
  THEN CodeUnits(LowerOfCode(CodePoint(s[i], s[i + 1]))) \o LowerFrom(s, kinds, i + 2)
  ELSE IF s[i] = "U+03A3"
  THEN <<IF CasedBefore(kinds, i - 1) /\ ~ CasedAfter(kinds, i + 1)
         THEN "U+03C2" ELSE "U+03C3">> \o LowerFrom(s, kinds, i + 1)
  ELSE IF s[i] \in DOMAIN LowerSpecial
  THEN LowerSpecial[s[i]] \o LowerFrom(s, kinds, i + 1)
  ELSE CodeUnits(LowerOfCode(CodeOf(s[i]))) \o LowerFrom(s, kinds, i + 1)

\* String.prototype.toLowerCase
toLowerCase(s) == LowerFrom(s, Kinds(s), 1)

\* the white space and line terminators String.prototype.trim strips
WhiteSpace ==
  {"\t", "\n", "", "\f", "\r", " ", " ",
   "U+1680", "U+2000", "U+2001", "U+2002", "U+2003", "U+2004", "U+2005", "U+2006",
   "U+2007", "U+2008", "U+2009", "U+200A", "U+2028", "U+2029", "U+202F", "U+205F",
   "U+3000", "U+FEFF"}

RECURSIVE trimStart(_)
trimStart(s) ==
  IF s # <<>> /\ Head(s) \in WhiteSpace THEN trimStart(Tail(s)) ELSE s

RECURSIVE trimEnd(_)
trimEnd(s) ==
  IF s # <<>> /\ s[Len(s)] \in WhiteSpace THEN trimEnd(SubSeq(s, 1, Len(s) - 1)) ELSE s

trim(s) == trimEnd(trimStart(s))

\* String.prototype.includes: the empty string is contained in every string
includes(s, t) ==
  \E i \in 0..(Len(s) - Len(t)) : SubSeq(s, i + 1, i + Len(t)) = t

DigitChar == <<"0", "1", "2", "3", "4", "5", "6", "7", "8", "9">>

\* String(n) of an integer
RECURSIVE NumberToString(_)
NumberToString(n) ==
  IF n < 0 THEN <<"-">> \o NumberToString(0 - n)
  ELSE IF n < 10 THEN <<DigitChar[n + 1]>>
  ELSE NumberToString(n \div 10) \o <<DigitChar[(n % 10) + 1]>>

ObjectChars == <<"[", "o", "b", "j", "e", "c", "t", " ", "O", "b", "j", "e", "c", "t", "]">>

\* String(v) of a value that is neither undefined nor null: a string, a
\* number, a boolean, an atom (identifier, node type) or an object
StringOf(v) ==
  IF IsString(v) THEN v
  ELSE IF IsNumber(v) THEN NumberToString(v)
  ELSE IF ToString(v) \in {"TRUE", "FALSE"} THEN (IF v THEN Chars("true") ELSE Chars("false"))
  ELSE IF SubSeq(ToString(v), 1, 1) = "\"" THEN Chars(v)
  ELSE ObjectChars

\* Array.prototype.includes on a list of atoms
ListHas(list, x) == \E i \in 1..Len(list) : list[i] = x

RECURSIVE SelectSeq2(_, _)
\* the elements of seq whose index is in keep, in order
SelectSeq2(seq, keep) ==
  IF seq = <<>> THEN <<>>
  ELSE LET n == Len(seq)
           front == SelectSeq2(SubSeq(seq, 1, n - 1), keep)
       IN IF n \in keep THEN Append(front, seq[n]) ELSE front

Range(seq) == {seq[i] : i \in 1..Len(seq)}

(***************************************************************************)
(* The raw datasets (the JSON files the loader fetches).                   *)
(***************************************************************************)
NodeTypes == {"section", "entity", "concept", "index"}
EdgeTypes == {"definition", "reference", "hierarchy"}

RawNode(id, name, type, props) ==
  [id |-> id, name |-> name, node_type |-> type, properties |-> props]

RawLink(s, t, type) == [source |-> s, target |-> t, edge_type |-> type]

\* an entry of an object
Prop(k, v) == [key |-> k, value |-> v]

\* the snapshot of the specification's scenarios
RawABC ==
  [nodes |-> << RawNode("A", <<"A">>, "section", Object(<< Prop("text", <<"A", "b">>) >>)),
                RawNode("B", <<"B">>, "entity", Object(<< >>)),
                RawNode("C", <<"C">>, "concept", Object(<< Prop("definition", <<"a", " ", "c">>) >>)) >>,
   links |-> << RawLink("A", "B", "reference"),
                RawLink("B", "C", "definition") >>]

\* four nodes, hierarchy edges, global and filtered degrees that differ
RawHub ==
  [nodes |-> << RawNode("A", <<"A">>, "section", Object(<< Prop("text", <<"A", "b">>) >>)),
                RawNode("B", <<"B">>, "entity", Object(<< >>)),
                RawNode("C", <<"C">>, "concept", Object(<< Prop("definition", <<"a", " ", "c">>) >>)),
                RawNode("D", <<"D">>, "index", Object(<< Prop("note", <<"b", "2">>) >>)) >>,
   links |-> << RawLink("A", "B", "reference"),
                RawLink("B", "C", "definition"),
                RawLink("D", "A", "hierarchy"),
                RawLink("D", "B", "hierarchy"),
                RawLink("C", "D", "reference") >>]

\* a node that refers to itself
RawLoop ==
  [nodes |-> << RawNode("A", <<"A">>, "section", Object(<< >>)),
                RawNode("B", <<"B">>, "entity", Object(<< >>)) >>,
   links |-> << RawLink("A", "A", "definition"),
                RawLink("A", "B", "reference") >>]

\* a hub A of degree 3 whose neighbours have degree 1; a property and an
\* edge type that are null in the file, properties that are no strings (a
\* number, a boolean, an empty object), a section number, letters outside
\* ASCII
RawStar ==
  [nodes |-> << [id |-> "A", name |-> <<"A">>, node_type |-> "section", properties |-> Object(<< >>),
                 time |-> <<"2", "0", "1", "5">>, title |-> <<"2", "6">>, section |-> 1],
                RawNode("B", <<"B">>, "entity", Object(<< Prop("text", Null) >>)),
                RawNode("C", <<"C">>, "concept",
                        Object(<< Prop("n", 3), Prop("b", TRUE), Prop("o", Object(<< >>)),
                                  Prop("s", <<"S", "t", "r">>) >>)),
                RawNode("D", <<"D">>, "index",
                        Object(<< Prop("text", <<"É", "U+0391", "U+03A3">>) >>)) >>,
   links |-> << RawLink("A", "B", Null),
                RawLink("C", "A", "definition"),
                RawLink("A", "D", "hierarchy") >>]

DatasetNames == {"ABC", "Hub", "Loop", "Star"}

\* the file fetched for a dataset name
RawGraph(name) ==
  IF name = "ABC" THEN RawABC
  ELSE IF name = "Hub" THEN RawHub
  ELSE IF name = "Loop" THEN RawLoop
  ELSE RawStar


(***************************************************************************)
(* loadGraph: the snapshot built from a raw dataset.                       *)
(***************************************************************************)
RawGet(n, field) == IF field \in DOMAIN n THEN n[field] ELSE Undefined

\* properties?.key: the value of the entry k of an object, undefined
\* without one
PropGet(props, k) ==
  IF IsObject(props) /\ \E i \in 1..Len(props.entries) : props.entries[i].key = k
  THEN props.entries[CHOOSE i \in 1..Len(props.entries) : props.entries[i].key = k].value
  ELSE Undefined

\* a ?? b
Nullish(a, b) == IF IsNullish(a) THEN b ELSE a

\* degreeMap.get(id) || 0 over the raw links
RawDegree(links, id) ==
  Cardinality({i \in 1..Len(links) : links[i].source = id})
  + Cardinality({i \in 1..Len(links) : links[i].target = id})

HexSection == <<"#", "4", "1", "3", "7", "8", "F">>
HexEntityConcept == <<"#", "F", "0", "A", "7", "3", "4">>
HexOther == <<"#", "A", "F", "B", "B", "E", "8">>

LoadBaseColor(type) ==
  IF type \in {"section", "index"} THEN HexSection
  ELSE IF type \in {"entity", "concept"} THEN HexEntityConcept
  ELSE HexOther

\* the node object of lines 126-156, its fields in the order the model
\* checker keeps them
LoadNode(raw, n) ==
  [id |-> n.id,
   name |-> n.name,
   node_type |-> n.node_type,
   properties |-> RawGet(n, "properties"),
   time |-> RawGet(n, "time"),
   title |-> RawGet(n, "title"),
   section |-> RawGet(n, "section"),
   usc_title |-> RawGet(n, "title"),
   source_title |-> RawGet(n, "title"),
   part |-> RawGet(n, "part"),
   val |-> RawDegree(raw.links, n.id),
   totalVal |-> RawDegree(raw.links, n.id),
   display_label |-> RawGet(n, "display_label"),
   subtitle |-> RawGet(n, "subtitle"),
   chapter |-> RawGet(n, "chapter"),
   subchapter |-> RawGet(n, "subchapter"),
   subsection |-> RawGet(n, "subsection"),
   full_name |-> RawGet(n, "full_name"),
   text |-> Nullish(RawGet(n, "text"), PropGet(RawGet(n, "properties"), "text")),
   term_type |-> RawGet(n, "term_type"),
   section_text |-> Nullish(RawGet(n, "text"), PropGet(RawGet(n, "properties"), "text")),
   color |-> LoadBaseColor(n.node_type),
   baseColor |-> LoadBaseColor(n.node_type)]

\* edge_type: l.edge_type ?? 'reference'
LoadLink(l) ==
  [source |-> l.source, target |-> l.target,
   edge_type |-> Nullish(RawGet(l, "edge_type"), "reference")]

loadGraph(raw) ==
  [nodes |-> AsList([i \in 1..Len(raw.nodes) |-> LoadNode(raw, raw.nodes[i])]),
   links |-> AsList([i \in 1..Len(raw.links) |-> LoadLink(raw.links[i])])]

(***************************************************************************)
(* new NetworkBuilder(nodes, links): the adjacency index.                  *)
(***************************************************************************)
RECURSIVE BuildAdjacency_SourceOnly(_)
\* an index that lists each link at its source only
BuildAdjacency_SourceOnly(links) ==
  IF links = <<>> THEN << >>
  ELSE LET n == Len(links)
           link == links[n]
           m0 == BuildAdjacency_SourceOnly(SubSeq(links, 1, n - 1))
           m1 == IF link.source \in DOMAIN m0 THEN m0 ELSE m0 @@ (link.source :> <<>>)
           m2 == IF link.target \in DOMAIN m1 THEN m1 ELSE m1 @@ (link.target :> <<>>)
       IN [m2 EXCEPT ![link.source] =
             Append(@, [neighborId |-> link.target, edgeType |-> link.edge_type])]

RECURSIVE BuildAdjacency(_)
\* the Map after links.forEach: a function on the identifiers that occur
BuildAdjacency(links) ==
  IF links = <<>> THEN << >>
  ELSE LET n == Len(links)
           link == links[n]
           m0 == BuildAdjacency(SubSeq(links, 1, n - 1))
           m1 == IF link.source \in DOMAIN m0 THEN m0 ELSE m0 @@ (link.source :> <<>>)
           m2 == IF link.target \in DOMAIN m1 THEN m1 ELSE m1 @@ (link.target :> <<>>)
           m3 == [m2 EXCEPT ![link.source] =
                    Append(@, [neighborId |-> link.target, edgeType |-> link.edge_type])]
       IN [m3 EXCEPT ![link.target] =
             Append(@, [neighborId |-> link.source, edgeType |-> link.edge_type])]

\* adjacencyMap.get(id) || []
AdjGet(adj, id) == IF id \in DOMAIN adj THEN adj[id] ELSE <<>>

(***************************************************************************)
(* searchNodes                                                             *)
(***************************************************************************)
NodeTypeChars(type) ==
  CASE type = "section" -> <<"s", "e", "c", "t", "i", "o", "n">>
    [] type = "entity" -> <<"e", "n", "t", "i", "t", "y">>
    [] type = "concept" -> <<"c", "o", "n", "c", "e", "p", "t">>
    [] type = "index" -> <<"i", "n", "d", "e", "x">>

\* the functions every object inherits from Object.prototype
ObjectPrototype ==
  {"constructor", "__defineGetter__", "__defineSetter__", "hasOwnProperty",
   "__lookupGetter__", "__lookupSetter__", "isPrototypeOf", "propertyIsEnumerable",
   "toString", "valueOf", "toLocaleString"}

\* String(f) of a built-in function
NativeFunctionChars(name) == Chars("function " \o name \o "() { [native code] }")

\* String((node as any)[field]): an own property of the node, or what the
\* node inherits from Object.prototype; undefined and null stay what they are
AttrString(node, field) ==
  IF field \notin DOMAIN node
  THEN IF field = "constructor" THEN NativeFunctionChars("Object")
       ELSE IF field \in ObjectPrototype THEN NativeFunctionChars(field)
       ELSE IF field = "__proto__" THEN ObjectChars
       ELSE Undefined
  ELSE CASE field \in {"val", "totalVal"} -> NumberToString(node[field])
         [] field = "id" -> Chars(node.id)
         [] field = "node_type" -> NodeTypeChars(node.node_type)
         [] OTHER -> IF IsNullish(node[field]) THEN node[field] ELSE StringOf(node[field])

NodeGet(node, field) == IF field \in DOMAIN node THEN node[field] ELSE Undefined

\* what one search field pushes to searchableValues for a node
FieldValues(node, field) ==
  IF field = "properties"
  THEN IF ~ IsObject(node.properties) THEN <<>>
       ELSE LET HasString(prop) == IsString(prop.value)
                strings == SelectSeq(node.properties.entries, HasString)
            IN AsList([i \in 1..Len(strings) |-> toLowerCase(strings[i].value)])
  ELSE LET value ==
             CASE field = "text" ->
                    OrElse(OrElse(OrElse(PropGet(node.properties, "text"), NodeGet(node, "text")),
                                  NodeGet(node, "section_text")),
                           NodeGet(node, "index_heading"))
               [] field = "full_name" ->
                    OrElse(PropGet(node.properties, "full_name"), NodeGet(node, "full_name"))
               [] field = "display_label" -> node.display_label
               [] field = "definition" -> PropGet(node.properties, "definition")
               [] field = "entity" -> IF node.node_type = "entity" THEN node.name ELSE Null
               [] field = "concept" -> IF node.node_type = "concept" THEN node.name ELSE Null
               [] OTHER -> AttrString(node, field)
       IN IF ~ IsNullish(value) THEN <<toLowerCase(StringOf(value))>> ELSE <<>>

RECURSIVE SearchableValues(_, _)
SearchableValues(node, searchFields) ==
  IF searchFields = <<>> THEN <<>>
  ELSE FieldValues(node, Head(searchFields)) \o SearchableValues(node, Tail(searchFields))

\* AND logic that wants every term in every collected value
NodeMatches_EveryValue(node, normalizedTerms, searchFields, logic) ==
  LET searchableValues == SearchableValues(node, searchFields)
      hit(term) == \E j \in 1..Len(searchableValues) : includes(searchableValues[j], term)
      hitAll(term) == \A j \in 1..Len(searchableValues) : includes(searchableValues[j], term)
  IN IF logic = "OR"
     THEN \E i \in 1..Len(normalizedTerms) : hit(normalizedTerms[i])
     ELSE \A i \in 1..Len(normalizedTerms) : hitAll(normalizedTerms[i])

\* OR logic that looks at the first term only
NodeMatches_FirstTermOnly(node, normalizedTerms, searchFields, logic) ==
  LET searchableValues == SearchableValues(node, searchFields)
      hit(term) == \E j \in 1..Len(searchableValues) : includes(searchableValues[j], term)
  IN IF logic = "OR"
     THEN normalizedTerms # <<>> /\ hit(normalizedTerms[1])
     ELSE \A i \in 1..Len(normalizedTerms) : hit(normalizedTerms[i])

NodeMatches(node, normalizedTerms, searchFields, logic) ==
  LET searchableValues == SearchableValues(node, searchFields)
      hit(term) == \E j \in 1..Len(searchableValues) : includes(searchableValues[j], term)
  IN IF logic = "OR"
     THEN \E i \in 1..Len(normalizedTerms) : hit(normalizedTerms[i])
     ELSE \A i \in 1..Len(normalizedTerms) : hit(normalizedTerms[i])

\* a search that matches the terms as they were typed
searchNodes_TermsAsTyped(nodes, searchTerms, searchFields, logic) ==
  {nodes[i].id : i \in {k \in 1..Len(nodes) :
                           NodeMatches(nodes[k], searchTerms, searchFields, logic)}}

\* the Set of matched identifiers
searchNodes(nodes, searchTerms, searchFields, logic) ==
  LET normalizedTerms ==
        AsList([i \in 1..Len(searchTerms) |-> trim(toLowerCase(searchTerms[i]))])
  IN {nodes[i].id : i \in {k \in 1..Len(nodes) :
                              NodeMatches(nodes[k], normalizedTerms, searchFields, logic)}}

(***************************************************************************)
(* expandFromSeeds                                                         *)
(***************************************************************************)
Min(a, b) == IF a < b THEN a ELSE b
Max(a, b) == IF a > b THEN a ELSE b

\* Array.prototype.slice(0, n)
Slice0(seq, n) ==
  IF n >= 0 THEN SubSeq(seq, 1, Min(n, Len(seq)))
  ELSE SubSeq(seq, 1, Max(Len(seq) + n, 0))

\* a step that follows the edges of every type
LimitedNeighbors_AnyType(adj, nodeId, maxNeighborsPerNode, allowedEdgeTypes) ==
  LET neighbors == AdjGet(adj, nodeId)
  IN IF maxNeighborsPerNode > 0 THEN Slice0(neighbors, maxNeighborsPerNode) ELSE neighbors

\* a step that cuts the adjacency list before it filters by edge type
LimitedNeighbors_CutFirst(adj, nodeId, maxNeighborsPerNode, allowedEdgeTypes) ==
  LET neighbors == AdjGet(adj, nodeId)
      Allowed(n) == ListHas(allowedEdgeTypes, n.edgeType)
      cut == IF maxNeighborsPerNode > 0 THEN Slice0(neighbors, maxNeighborsPerNode)
             ELSE neighbors
  IN IF Len(allowedEdgeTypes) > 0 THEN SelectSeq(cut, Allowed) ELSE cut

\* the adjacency entries of nodeId that one expansion step follows
LimitedNeighbors(adj, nodeId, maxNeighborsPerNode, allowedEdgeTypes) ==
  LET neighbors == AdjGet(adj, nodeId)
      Allowed(n) == ListHas(allowedEdgeTypes, n.edgeType)
      filteredNeighbors ==
        IF Len(allowedEdgeTypes) > 0 THEN SelectSeq(neighbors, Allowed) ELSE neighbors
  IN IF maxNeighborsPerNode > 0
     THEN Slice0(filteredNeighbors, maxNeighborsPerNode)
     ELSE filteredNeighbors

\* a pass that puts expanded neighbours into the next layer again
NextLayer_Revisit(adj, expanded, currentLayer, maxNeighborsPerNode, allowedEdgeTypes) ==
  UNION {{e.neighborId :
            e \in Range(LimitedNeighbors(adj, id, maxNeighborsPerNode, allowedEdgeTypes))} :
         id \in currentLayer}

\* the identifiers one pass over currentLayer adds to expanded
NextLayer(adj, expanded, currentLayer, maxNeighborsPerNode, allowedEdgeTypes) ==
  {nb \in UNION {{e.neighborId :
                    e \in Range(LimitedNeighbors(adj, id, maxNeighborsPerNode, allowedEdgeTypes))} :
                 id \in currentLayer} : nb \notin expanded}

RECURSIVE ExpandLoop(_, _, _, _, _, _, _)
\* the for loop from iteration i on
ExpandLoop(adj, expanded, currentLayer, i, depth, maxNeighborsPerNode, allowedEdgeTypes) ==
  IF i >= depth THEN expanded
  ELSE LET nextLayer ==
             NextLayer(adj, expanded, currentLayer, maxNeighborsPerNode, allowedEdgeTypes)
       IN IF nextLayer = {} THEN expanded
          ELSE ExpandLoop(adj, expanded \cup nextLayer, nextLayer, i + 1, depth,
                          maxNeighborsPerNode, allowedEdgeTypes)

\* an expansion whose expanded set starts empty
expandFromSeeds_EmptyStart(adj, seedIds, depth, maxNeighborsPerNode, allowedEdgeTypes) ==
  ExpandLoop(adj, {}, seedIds, 0, depth, maxNeighborsPerNode, allowedEdgeTypes)

expandFromSeeds(adj, seedIds, depth, maxNeighborsPerNode, allowedEdgeTypes) ==
  ExpandLoop(adj, seedIds, seedIds, 0, depth, maxNeighborsPerNode, allowedEdgeTypes)

(***************************************************************************)
(* selectTopNodesByDegree and the sort both ranking modes use              *)
(***************************************************************************)
RECURSIVE InsertByDegree(_, _, _)
\* x placed behind every element whose degree is at least its own
InsertByDegree(sorted, x, degree) ==
  IF sorted = <<>> THEN <<x>>
  ELSE IF degree[Head(sorted)] >= degree[x]
       THEN <<Head(sorted)>> \o InsertByDegree(Tail(sorted), x, degree)
       ELSE <<x>> \o sorted

RECURSIVE SortByDegreeDesc(_, _)
\* the stable Array.prototype.sort((a, b) => degree(b) - degree(a))
SortByDegreeDesc(ids, degree) ==
  IF ids = <<>> THEN <<>>
  ELSE InsertByDegree(SortByDegreeDesc(SubSeq(ids, 1, Len(ids) - 1), degree),
                      ids[Len(ids)], degree)

\* the first maxNodes identifiers without the sort
selectTopNodesByDegree_Unsorted(adj, nodeIds, maxNodes) == Slice0(nodeIds, maxNodes)

\* a ranking that drops the first maxNodes identifiers: slice(maxNodes)
selectTopNodesByDegree_DropFirst(adj, nodeIds, maxNodes) ==
  LET nodeDegrees == [id \in Range(nodeIds) |-> Len(AdjGet(adj, id))]
      sorted == SortByDegreeDesc(nodeIds, nodeDegrees)
  IN SubSeq(sorted, Max(maxNodes, 0) + 1, Len(sorted))

\* the ranking without the slice to maxNodes
selectTopNodesByDegree_NoSlice(adj, nodeIds, maxNodes) ==
  SortByDegreeDesc(nodeIds, [id \in Range(nodeIds) |-> Len(AdjGet(adj, id))])

\* a ranking that puts the lowest degree first
selectTopNodesByDegree_Ascending(adj, nodeIds, maxNodes) ==
  LET nodeDegrees == [id \in Range(nodeIds) |-> 0 - Len(AdjGet(adj, id))]
  IN Slice0(SortByDegreeDesc(nodeIds, nodeDegrees), maxNodes)

selectTopNodesByDegree(adj, nodeIds, maxNodes) ==
  LET nodeDegrees == [id \in Range(nodeIds) |-> Len(AdjGet(adj, id))]
  IN Slice0(SortByDegreeDesc(nodeIds, nodeDegrees), maxNodes)

(***************************************************************************)
(* buildNetwork                                                            *)
(***************************************************************************)
EmptyGraph == [nodes |-> <<>>, links |-> <<>>, truncated |-> FALSE, matchedCount |-> 0]

HasNode(nodes, id) == \E i \in 1..Len(nodes) : nodes[i].id = id

\* this.allNodes.find(n => n.id === id)
FindNode(nodes, id) == nodes[CHOOSE i \in 1..Len(nodes) : nodes[i].id = id]

\* the number of link endpoints at id
LinkDegree(links, id) ==
  Cardinality({i \in 1..Len(links) : links[i].source = id})
  + Cardinality({i \in 1..Len(links) : links[i].target = id})

\* Math.round(c1 + (c2 - c1) * (v / maxVal)), in integers
ScaleChannel(c1, c2, v, maxVal) ==
  (2 * (c1 * maxVal + (c2 - c1) * v) + maxVal) \div (2 * maxVal)

RgbString(r, g, b) ==
  <<"r", "g", "b", "(">> \o NumberToString(r) \o <<",", " ">> \o NumberToString(g)
    \o <<",", " ">> \o NumberToString(b) \o <<")">>

sectionColorScale(v, maxVal) ==
  RgbString(ScaleChannel(155, 65, v, maxVal), ScaleChannel(150, 55, v, maxVal),
            ScaleChannel(201, 143, v, maxVal))

entityConceptColorScale(v, maxVal) ==
  RgbString(ScaleChannel(249, 240, v, maxVal), ScaleChannel(217, 167, v, maxVal),
            ScaleChannel(155, 52, v, maxVal))

NodeColor(type, v, maxVal) ==
  IF type \in {"section", "index"} THEN sectionColorScale(v, maxVal)
  ELSE IF type \in {"entity", "concept"} THEN entityConceptColorScale(v, maxVal)
  ELSE HexOther

\* Step 8: val, totalVal, color and baseColor written to the returned node objects
AnnotateNodes(nodes, selected, links) ==
  LET nodeDegree == [id \in selected |-> LinkDegree(links, id)]
      val == [id \in selected |-> IF nodeDegree[id] = 0 THEN 1 ELSE nodeDegree[id]]
      vals == {val[id] : id \in selected} \cup {1}
      maxVal == CHOOSE m \in vals : \A v \in vals : v <= m
      Annotated(node) ==
        LET color == NodeColor(node.node_type, val[node.id], maxVal)
        IN [node EXCEPT !.val = val[node.id], !.totalVal = val[node.id],
                        !.color = color, !.baseColor = color]
  IN AsList([i \in 1..Len(nodes) |->
               IF nodes[i].id \in selected THEN Annotated(nodes[i]) ELSE nodes[i]])

\* Step 1: the seeds and the candidates of a query that searches
\* a search that is run as soon as there are terms
SearchUsed_TermsOnly(state) == Len(state.searchTerms) > 0

\* a search guard that looks at the fields only
SearchUsed_FieldsOnly(state) == Len(state.searchFields) > 0

SearchUsed(state) == Len(state.searchTerms) > 0 /\ Len(state.searchFields) > 0

\* a node-type test that lets every type pass
TypeAllowed_Any(state, type) == TRUE

TypeAllowed(state, type) ==
  Len(state.allowedNodeTypes) = 0 \/ ListHas(state.allowedNodeTypes, type)

\* Step 1b without the expansion
ExpandedCandidates_SeedsOnly(nodes, adj, state, seedNodeIds) == seedNodeIds

ExpandedCandidates(nodes, adj, state, seedNodeIds) ==
  IF state.expansionDepth > 0
  THEN LET expanded == expandFromSeeds(adj, seedNodeIds, state.expansionDepth,
                                       state.maxNodesPerExpansion, state.allowedEdgeTypes)
       IN IF Len(state.allowedNodeTypes) > 0
          THEN {id \in expanded :
                  /\ HasNode(nodes, id)
                  /\ \/ id \in seedNodeIds
                     \/ ListHas(state.allowedNodeTypes, FindNode(nodes, id).node_type)}
          ELSE expanded
  ELSE seedNodeIds

\* Step 2 without the node-type filter
SeedsAfterFilter_Unfiltered(nodes, state, seedNodeIds) == seedNodeIds

\* Step 2: the seeds that pass the node-type filter
SeedsAfterFilter(nodes, state, seedNodeIds) ==
  {id \in seedNodeIds :
     /\ HasNode(nodes, id)
     /\ Len(state.allowedNodeTypes) > 0
     /\ ListHas(state.allowedNodeTypes, FindNode(nodes, id).node_type)}

\* Steps 1 to 2: the candidate identifiers, none when the seeds short-circuit
CandidateNodeIds(nodes, adj, state, searchLogic) ==
  IF SearchUsed(state)
  THEN LET seedNodeIds == searchNodes(nodes, state.searchTerms, state.searchFields, searchLogic)
           seedsAfterFilter == SeedsAfterFilter(nodes, state, seedNodeIds)
           expanded == ExpandedCandidates(nodes, adj, state, seedNodeIds)
       IN IF seedsAfterFilter = {} THEN {}
          ELSE {id \in expanded : id \in seedsAfterFilter \/ id \notin seedNodeIds}
  ELSE {nodes[i].id : i \in 1..Len(nodes)}

\* Step 3: the candidate node objects, as their identifiers in snapshot order
CandidateNodes(nodes, candidateNodeIds) ==
  SelectSeq2(AsList([i \in 1..Len(nodes) |-> nodes[i].id]),
             {i \in 1..Len(nodes) : nodes[i].id \in candidateNodeIds})

\* Step 4 without the edge-type test
CandidateLinks_AnyType(links, state, candidateNodes) ==
  LET LinkKept(link) ==
        /\ link.source \in Range(candidateNodes)
        /\ link.target \in Range(candidateNodes)
  IN SelectSeq(links, LinkKept)

\* Step 4: the links of an allowed type between two candidates
CandidateLinks(links, state, candidateNodes) ==
  LET LinkKept(link) ==
        /\ Len(state.allowedEdgeTypes) > 0
        /\ ListHas(state.allowedEdgeTypes, link.edge_type)
        /\ link.source \in Range(candidateNodes)
        /\ link.target \in Range(candidateNodes)
  IN SelectSeq(links, LinkKept)

NodesWithEdges(candidateLinks) ==
  {candidateLinks[i].source : i \in 1..Len(candidateLinks)}
    \cup {candidateLinks[i].target : i \in 1..Len(candidateLinks)}

\* Step 5 without the test for an edge
ConnectedNodeIds_NoEdgeTest(nodes, state, candidateNodes, candidateLinks) ==
  LET Connected(id) == TypeAllowed(state, FindNode(nodes, id).node_type)
  IN SelectSeq(candidateNodes, Connected)

\* Step 5: the candidates with an edge and an allowed type, in snapshot order
ConnectedNodeIds(nodes, state, candidateNodes, candidateLinks) ==
  LET Connected(id) ==
        /\ id \in NodesWithEdges(candidateLinks)
        /\ TypeAllowed(state, FindNode(nodes, id).node_type)
  IN SelectSeq(candidateNodes, Connected)

\* Step 6, subgraph mode, without the sort
TopNodesBySubgraphDegree_Unsorted(connectedNodeIds, candidateLinks, maxTotalNodes) ==
  Slice0(connectedNodeIds, maxTotalNodes)

\* Step 6, subgraph mode: the top nodes by degree among the candidate links
TopNodesBySubgraphDegree(connectedNodeIds, candidateLinks, maxTotalNodes) ==
  LET nodeDegrees == [id \in NodesWithEdges(candidateLinks) |-> LinkDegree(candidateLinks, id)]
      HasDegree(id) == id \in DOMAIN nodeDegrees
  IN Slice0(SortByDegreeDesc(SelectSeq(connectedNodeIds, HasDegree), nodeDegrees),
            maxTotalNodes)

\* Step 6: the node cap
FinalNodeIds(adj, state, nodeRankingMode, connectedNodeIds, candidateLinks) ==
  IF Len(connectedNodeIds) > state.maxTotalNodes
  THEN IF nodeRankingMode = "subgraph"
       THEN Range(TopNodesBySubgraphDegree(connectedNodeIds, candidateLinks,
                                           state.maxTotalNodes))
       ELSE Range(selectTopNodesByDegree(adj, connectedNodeIds, state.maxTotalNodes))
  ELSE Range(connectedNodeIds)

\* Step 7: the returned node objects, as their identifiers in snapshot order
SelectedNodes(nodes, state, finalNodeIds) ==
  SelectSeq2(AsList([i \in 1..Len(nodes) |-> nodes[i].id]),
             {i \in 1..Len(nodes) :
                /\ nodes[i].id \in finalNodeIds
                /\ TypeAllowed(state, nodes[i].node_type)})

\* Step 7 without the test of the endpoints against the returned nodes
FinalLinks_Unchecked(candidateLinks, selected) == candidateLinks

\* Step 7: the returned links
FinalLinks(candidateLinks, selected) ==
  LET BothSelected(link) == link.source \in Range(selected) /\ link.target \in Range(selected)
  IN SelectSeq(candidateLinks, BothSelected)

\* Steps 3 to 8, from the candidate identifiers
AssembleNetwork(nodes, links, adj, state, nodeRankingMode, candidateNodeIds) ==
  LET candidateNodes == CandidateNodes(nodes, candidateNodeIds)
      candidateLinks == CandidateLinks(links, state, candidateNodes)
      connectedNodeIds == ConnectedNodeIds(nodes, state, candidateNodes, candidateLinks)
      finalNodeIds == FinalNodeIds(adj, state, nodeRankingMode, connectedNodeIds,
                                   candidateLinks)
      selected == SelectedNodes(nodes, state, finalNodeIds)
      finalLinks == FinalLinks(candidateLinks, selected)
  IN [result |-> [nodes |-> selected,
                  links |-> finalLinks,
                  truncated |-> Len(connectedNodeIds) > state.maxTotalNodes,
                  matchedCount |-> Len(connectedNodeIds)],
      allNodes |-> AnnotateNodes(nodes, Range(selected), finalLinks)]

\* the FilteredGraph returned and the node objects after the call
buildNetwork(nodes, links, adj, state, searchLogic, nodeRankingMode) ==
  IF SearchUsed(state)
  THEN LET seedNodeIds == searchNodes(nodes, state.searchTerms, state.searchFields, searchLogic)
           seedsAfterFilter == SeedsAfterFilter(nodes, state, seedNodeIds)
           expanded == ExpandedCandidates(nodes, adj, state, seedNodeIds)
       IN IF seedNodeIds = {} \/ seedsAfterFilter = {}
          THEN [result |-> EmptyGraph, allNodes |-> nodes]
          ELSE AssembleNetwork(nodes, links, adj, state, nodeRankingMode,
                 {id \in expanded : id \in seedsAfterFilter \/ id \notin seedNodeIds})
  ELSE AssembleNetwork(nodes, links, adj, state, nodeRankingMode,
                       {nodes[i].id : i \in 1..Len(nodes)})

(***************************************************************************)
(* The queries the callers issue.                                          *)
(***************************************************************************)
\* no search at all
NoSearch == Search(<<>>, <<>>, "OR")

\* the half-specified searches: terms without fields, fields without terms
HalfSearches ==
  { Search(<<>>, <<"entity">>, "OR"),
    Search(<<>>, <<"entity">>, "AND"),
    Search(<< <<"b">> >>, <<>>, "AND") }

\* a name search, a search on an attribute the switch does not name, two terms
\* that must both match, two terms over the property values
Searches ==
  { Search(<< <<" ", "B">> >>, <<"entity">>, "OR"),
    Search(<< <<"2">> >>, <<"val">>, "OR"),
    Search(<< <<"a">>, <<"b">> >>, <<"text", "entity">>, "AND"),
    Search(<< <<"2">>, <<"b">> >>, <<"properties">>, "OR") }

\* the searches searchNodes is called with on its own: those above, three
\* terms over three fields, an inherited attribute and the identifier, the
\* place in the hierarchy, letters outside ASCII, and empty term lists with
\* and without fields
StandaloneSearches ==
  Searches \cup
  { Search(<< <<"\t", "B", "\n">>, <<"a">>, <<"c">> >>, <<"definition", "text", "entity">>, "OR"),
    Search(<< <<"O", "b", "j">>, <<"b">> >>, <<"constructor", "id">>, "AND"),
    Search(<< <<"2", "6">>, <<"1">> >>, <<"title", "section", "time">>, "AND"),
    Search(<< <<"É", "U+0391", "U+03A3">>, <<"S", "T", "R">> >>, <<"text", "properties">>, "OR"),
    Search(<<>>, <<>>, "OR"),
    Search(<<>>, <<"entity">>, "OR"),
    Search(<<>>, <<"text", "properties">>, "OR") }

\* the query of the specification's first scenario
Scenario1 ==
  Query(Search(<< <<"B">> >>, <<"entity">>, "OR"), <<"section", "entity", "concept">>,
        <<"reference", "definition">>, 1, 0, 10)

\* the query of the specification's second scenario: definition edges only
Scenario2 ==
  Query(Search(<< <<"B">> >>, <<"entity">>, "OR"), <<"section", "entity", "concept">>,
        <<"definition">>, 1, 0, 10)

AllNodeTypes == <<"section", "entity", "concept", "index">>

NodeTypeLists == { <<>>, <<"section", "entity", "concept">>, <<"section">> }

EdgeTypeLists == { <<>>, <<"reference", "definition">>, <<"definition">> }

RankingModes == {"global", "subgraph"}

(***************************************************************************)
(* The state: one NetworkBuilder over one loaded snapshot, and what its    *)
(* latest caller holds.                                                    *)
(***************************************************************************)
VARIABLES
  dataset,       \* the name of the dataset the snapshot was loaded from
  allNodes,      \* the node objects of the snapshot, in snapshot order
  allLinks,      \* the links of the snapshot
  adjacencyMap,  \* the adjacency index
  calls,         \* the number of calls made
  last,          \* the latest call: its arguments, its result, its nodes as returned
  cachedGraphs,  \* the loader's Map from cache key to GraphData object
  loads,         \* the loadGraph calls made, in the order they started
  objects        \* the number of GraphData objects created

vars == <<dataset, allNodes, allLinks, adjacencyMap, calls, last, cachedGraphs, loads, objects>>

\* the loader's part of the state
loaderVars == <<cachedGraphs, loads, objects>>

\* `${title}::${timeScope}`
cacheKey(title, timeScope) == title \o <<":", ":">> \o timeScope

\* a loadGraph call: its arguments, where it stands ("fetching" at the await
\* of loadRawGraph, "returned", "threw"), whether it issued a fetch, and the
\* GraphData object it returned (0 for none)
LoadCall(title, timeScope, pc, fetched, graphData) ==
  [title |-> title, timeScope |-> timeScope, pc |-> pc, fetched |-> fetched,
   graphData |-> graphData]

\* the title and time scope the snapshot of the builder was loaded for
SnapshotTitle == <<"2", "6">>
SnapshotTimeScope == <<"2", "0", "1", "5">>

\* the loader after the one loadGraph call that fetched the builder's snapshot
SnapshotLoaded ==
  /\ cachedGraphs = (cacheKey(SnapshotTitle, SnapshotTimeScope) :> 1)
  /\ loads = << LoadCall(SnapshotTitle, SnapshotTimeScope, "returned", TRUE, 1) >>
  /\ objects = 1

\* what a caller reads from the node objects of a FilteredGraph
NodeView(node) ==
  [id |-> node.id, node_type |-> node.node_type, val |-> node.val,
   totalVal |-> node.totalVal, color |-> node.color, baseColor |-> node.baseColor]

\* the node objects a FilteredGraph refers to, as they are in the heap
Deref(nodes, refs) == AsList([i \in 1..Len(refs) |-> NodeView(FindNode(nodes, refs[i]))])

Init ==
  \E name \in DatasetNames :
    LET graph == loadGraph(RawGraph(name))
    IN /\ dataset = name
       /\ allNodes = graph.nodes
       /\ allLinks = graph.links
       /\ adjacencyMap = BuildAdjacency(graph.links)
       /\ calls = 0
       /\ last = NoCall
       /\ SnapshotLoaded

BuildNetwork(state, searchLogic, nodeRankingMode) ==
  /\ calls < MaxCalls
  /\ LET out == buildNetwork(allNodes, allLinks, adjacencyMap, state,
                             searchLogic, nodeRankingMode)
     IN /\ allNodes' = out.allNodes
        /\ last' = [op |-> "buildNetwork",
                    searchLogic |-> searchLogic,
                    state |-> state,
                    nodeRankingMode |-> nodeRankingMode,
                    result |-> out.result,
                    returned |-> Deref(out.allNodes, out.result.nodes)]
  /\ calls' = calls + 1
  /\ UNCHANGED <<dataset, allLinks, adjacencyMap>>
  /\ UNCHANGED loaderVars

SearchNodes(searchTerms, searchFields, logic) ==
  /\ calls < MaxCalls
  /\ last' = [op |-> "searchNodes",
              searchTerms |-> searchTerms,
              searchFields |-> searchFields,
              logic |-> logic,
              result |-> searchNodes(allNodes, searchTerms, searchFields, logic)]
  /\ calls' = calls + 1
  /\ UNCHANGED <<dataset, allNodes, allLinks, adjacencyMap>>
  /\ UNCHANGED loaderVars

ExpandFromSeeds(seedIds, depth, maxNeighborsPerNode, allowedEdgeTypes) ==
  /\ calls < MaxCalls
  /\ last' = [op |-> "expandFromSeeds",
              allowedEdgeTypes |-> allowedEdgeTypes,
              maxNeighborsPerNode |-> maxNeighborsPerNode,
              depth |-> depth,
              seedIds |-> seedIds,
              result |-> expandFromSeeds(adjacencyMap, seedIds, depth,
                                         maxNeighborsPerNode, allowedEdgeTypes)]
  /\ calls' = calls + 1
  /\ UNCHANGED <<dataset, allNodes, allLinks, adjacencyMap>>
  /\ UNCHANGED loaderVars

NodeIds == {allNodes[i].id : i \in 1..Len(allNodes)}

\* the seed sets expandFromSeeds is called with: each node alone, and the
\* first and the last node of the snapshot together
SeedSets == {{id} : id \in NodeIds} \cup {{allNodes[1].id, allNodes[Len(allNodes)].id}}

\* the calls of one step: queries without a search, half-specified searches,
\* searches with unlimited fan-out, searches with a fan-out cap, searches
\* under each node cap, the two standalone operations and the scenario queries
Next ==
  \/ \E nt \in NodeTypeLists, et \in EdgeTypeLists, mt \in 1..MaxTotal, mode \in RankingModes :
       BuildNetwork(Query(NoSearch, nt, et, 0, 0, mt), "OR", mode)
  \/ \E s \in HalfSearches, nt \in NodeTypeLists :
       BuildNetwork(Query(s, nt, <<"reference", "definition">>, 1, 0, MaxTotal),
                    s.searchLogic, "global")
  \/ \E s \in Searches, nt \in NodeTypeLists, et \in EdgeTypeLists,
        d \in 0..MaxDepth, mode \in RankingModes :
       BuildNetwork(Query(s, nt, et, d, 0, MaxTotal), s.searchLogic, mode)
  \/ \E s \in Searches, d \in 1..MaxDepth, mn \in 1..MaxNeighbors :
       BuildNetwork(Query(s, <<"section", "entity", "concept">>,
                          <<"reference", "definition">>, d, mn, MaxTotal),
                    s.searchLogic, "global")
  \/ \E s \in Searches, mt \in 1..MaxTotal, mode \in RankingModes :
       BuildNetwork(Query(s, <<"section", "entity", "concept">>,
                          <<"reference", "definition">>, 1, 0, mt),
                    s.searchLogic, mode)
  \/ \E s \in StandaloneSearches, logic \in {"AND", "OR"} :
       SearchNodes(s.searchTerms, s.searchFields, logic)
  \/ \E q \in {Scenario1, Scenario2}, mode \in RankingModes : BuildNetwork(q, "OR", mode)
  \/ \E seeds \in SeedSets, d \in 0..MaxDepth, mn \in 0..MaxNeighbors, et \in EdgeTypeLists :
       ExpandFromSeeds(seeds, d, mn, et)

Spec == Init /\ [][Next]_vars

(***************************************************************************)
(* The adjacency index and the expansion over arbitrary edge lists: the    *)
(* nodes A, B, C with every list of up to MaxLinks links among them.       *)
(***************************************************************************)
GeneratedLinks ==
  {RawLink(s, t, type) : s \in {"A", "B", "C"}, t \in {"A", "B", "C"},
                         type \in {"reference", "definition"}}

EdgeLists == UNION {[1..n -> GeneratedLinks] : n \in 0..MaxLinks}

InitIndex ==
  \E links \in EdgeLists :
    LET graph == loadGraph([nodes |-> RawABC.nodes, links |-> links])
    IN /\ dataset = "generated"
       /\ allNodes = graph.nodes
       /\ allLinks = graph.links
       /\ adjacencyMap = BuildAdjacency(graph.links)
       /\ calls = 0
       /\ last = NoCall
       /\ SnapshotLoaded

\* one expansion on the index just built; a cap below 0 is a number the
\* method accepts as well
NextIndex ==
  \E seeds \in SeedSets, d \in 0..MaxLayers, mn \in (-1)..MaxNeighbors, et \in EdgeTypeLists :
    calls = 0 /\ ExpandFromSeeds(seeds, d, mn, et)

SpecIndex == InitIndex /\ [][NextIndex]_vars

(***************************************************************************)
(* loadGraph and its cache: calls for any title and time scope, each       *)
(* suspended at the fetch of its file until the fetch succeeds or fails.   *)
(***************************************************************************)
Titles == {<<"2", "6">>, <<"x">>}
TimeScopes == {<<"2", "0", "1", "5">>, <<"p", "r", "e">>}

\* a cache that never has the key
CacheHas_Never(cache, k) == FALSE

\* cachedGraphs.has(key)
CacheHas(cache, k) == k \in DOMAIN cache

\* cachedGraphs.set(key, graphData)
CacheSet(cache, k, graphData) ==
  [x \in DOMAIN cache \cup {k} |-> IF x = k THEN graphData ELSE cache[x]]

\* no builder yet, nothing loaded
InitLoad ==
  /\ dataset = "none"
  /\ allNodes = <<>>
  /\ allLinks = <<>>
  /\ adjacencyMap = << >>
  /\ calls = 0
  /\ last = NoCall
  /\ cachedGraphs = << >>
  /\ loads = <<>>
  /\ objects = 0

\* loadGraph(title, timeScope) up to its first suspension: the cached object
\* is returned, or the fetch of the file is issued
LoadGraphCall(title, timeScope) ==
  /\ Len(loads) < MaxLoads
  /\ loads' = Append(loads,
                IF CacheHas(cachedGraphs, cacheKey(title, timeScope))
                THEN LoadCall(title, timeScope, "returned", FALSE,
                              cachedGraphs[cacheKey(title, timeScope)])
                ELSE LoadCall(title, timeScope, "fetching", TRUE, 0))
  /\ UNCHANGED <<dataset, allNodes, allLinks, adjacencyMap, calls, last, cachedGraphs, objects>>

\* the fetch of call i delivered the file: the call builds a new GraphData
\* object, puts it into the cache under its key and returns it
FetchSucceeds(i) ==
  /\ loads[i].pc = "fetching"
  /\ objects' = objects + 1
  /\ cachedGraphs' = CacheSet(cachedGraphs, cacheKey(loads[i].title, loads[i].timeScope),
                              objects + 1)
  /\ loads' = [loads EXCEPT ![i] = LoadCall(@.title, @.timeScope, "returned", @.fetched,
                                            objects + 1)]
  /\ UNCHANGED <<dataset, allNodes, allLinks, adjacencyMap, calls, last>>

\* the fetch of call i failed: loadRawGraph throws and so does the call
FetchFails(i) ==
  /\ loads[i].pc = "fetching"
  /\ loads' = [loads EXCEPT ![i] = LoadCall(@.title, @.timeScope, "threw", @.fetched, 0)]
  /\ UNCHANGED <<dataset, allNodes, allLinks, adjacencyMap, calls, last, cachedGraphs, objects>>

NextLoad ==
  \/ \E title \in Titles, timeScope \in TimeScopes : LoadGraphCall(title, timeScope)
  \/ \E i \in 1..Len(loads) : FetchSucceeds(i)
  \/ \E i \in 1..Len(loads) : FetchFails(i)

SpecLoad == InitLoad /\ [][NextLoad]_vars

(***************************************************************************)
(* Properties.                                                             *)
(***************************************************************************)
\* the snapshot's node objects as the loader made them
nodes0 ==
  IF dataset \in DatasetNames THEN loadGraph(RawGraph(dataset)).nodes
  ELSE loadGraph([nodes |-> IF dataset = "generated" THEN RawABC.nodes ELSE <<>>,
                  links |-> allLinks]).nodes

\* what two results are compared by: identifiers, edges and the metadata
ResultValue(r) ==
  [nodes |-> Range(r.nodes), links |-> Range(r.links),
   truncated |-> r.truncated, matchedCount |-> r.matchedCount]

IsBuild == last.op = "buildNetwork"

\* C1: every edge buildNetwork returns has its source and its target among
\* the returned nodes.
C1_NoDanglingEdges ==
  IsBuild =>
    \A i \in 1..Len(last.result.links) :
      /\ last.result.links[i].source \in Range(last.result.nodes)
      /\ last.result.links[i].target \in Range(last.result.nodes)

\* a truncated result that still has an edge
C1_Witness ==
  /\ IsBuild
  /\ last.result.truncated
  /\ Len(last.result.links) >= 1

\* C2 as claimed: every node buildNetwork returns is an endpoint of a
\* returned edge.
C2_NoIsolatedNodes ==
  IsBuild =>
    \A i \in 1..Len(last.result.nodes) :
      \E j \in 1..Len(last.result.links) :
        \/ last.result.links[j].source = last.result.nodes[i]
        \/ last.result.links[j].target = last.result.nodes[i]

\* C3: with matchedCount above maxTotalNodes the result is truncated and has
\* exactly maxTotalNodes nodes; otherwise it is not truncated and has
\* matchedCount nodes; the node count never exceeds maxTotalNodes.
C3_TruncationInvariant ==
  IsBuild =>
    LET r == last.result
        m == last.state.maxTotalNodes
    IN /\ r.matchedCount > m => r.truncated /\ Len(r.nodes) = m
       /\ r.matchedCount <= m => ~r.truncated /\ Len(r.nodes) = r.matchedCount
       /\ Len(r.nodes) <= m

\* a result cut to the cap under subgraph ranking
C3_Witness ==
  /\ IsBuild
  /\ last.nodeRankingMode = "subgraph"
  /\ last.result.truncated
  /\ last.result.matchedCount > last.state.maxTotalNodes
  /\ Len(last.result.nodes) = last.state.maxTotalNodes

\* C4 as claimed: a buildNetwork call that repeats the call before it, with
\* the same query, logic and ranking mode, returns the same identifiers,
\* edges, truncated flag and matchedCount.
C4_Idempotent ==
  [][(/\ IsBuild
      /\ last'.op = "buildNetwork"
      /\ last'.state = last.state
      /\ last'.searchLogic = last.searchLogic
      /\ last'.nodeRankingMode = last.nodeRankingMode)
     => ResultValue(last'.result) = ResultValue(last.result)]_vars

\* C5 as claimed: the node objects, the links and the adjacency index stay as
\* they were at construction.
C5_SnapshotUnchanged ==
  /\ allNodes = nodes0
  /\ allLinks = loadGraph(RawGraph(dataset)).links
  /\ adjacencyMap = BuildAdjacency(loadGraph(RawGraph(dataset)).links)

\* C6 as claimed: a later call leaves the nodes of an earlier FilteredGraph as
\* they were returned.
C6_ResultNotShared ==
  [][IsBuild => Deref(allNodes', last.result.nodes) = last.returned]_vars

\* C7 as claimed: a query returns what it returns on the freshly loaded
\* snapshot, whatever calls came before it.
C7_QueryIndependent ==
  IsBuild =>
    ResultValue(last.result)
      = ResultValue(buildNetwork(nodes0, allLinks, adjacencyMap, last.state,
                                 last.searchLogic, last.nodeRankingMode).result)

\* C8 as claimed: the first query of a session with an empty node-type
\* allow-list returns what the same query returns with all four node types.
C8_EmptyNodeTypesMatchAll ==
  (IsBuild /\ calls = 1 /\ last.state.allowedNodeTypes = <<>>) =>
    ResultValue(last.result)
      = ResultValue(buildNetwork(nodes0, allLinks, adjacencyMap,
                                 [last.state EXCEPT !.allowedNodeTypes = AllNodeTypes],
                                 last.searchLogic, last.nodeRankingMode).result)

\* C9 as claimed: expandFromSeeds with an empty edge-type allow-list returns
\* exactly the seeds.
C9_EmptyEdgeTypesExpandNothing ==
  (last.op = "expandFromSeeds" /\ last.allowedEdgeTypes = <<>>) =>
    last.result = last.seedIds

\* C10: every edge buildNetwork returns has a type of the query's edge-type
\* allow-list, and with an empty allow-list the result has no edge, no node
\* and matchedCount 0.
C10_EdgeTypesAllowed ==
  IsBuild =>
    /\ \A i \in 1..Len(last.result.links) :
         ListHas(last.state.allowedEdgeTypes, last.result.links[i].edge_type)
    /\ last.state.allowedEdgeTypes = <<>> =>
         /\ last.result.nodes = <<>>
         /\ last.result.links = <<>>
         /\ last.result.matchedCount = 0

\* a result with an edge, from a snapshot that has edges of a type the query
\* does not allow
C10_Witness ==
  /\ IsBuild
  /\ last.state.allowedEdgeTypes = <<"definition">>
  /\ Len(last.result.links) >= 1
  /\ \E i \in 1..Len(allLinks) : allLinks[i].edge_type = "reference"

\* the type of a node of the snapshot
TypeOf(id) == FindNode(allNodes, id).node_type

\* C11: with a non-empty node-type allow-list every node buildNetwork returns
\* has a type of the list.
C11_NodeTypesRespected ==
  (IsBuild /\ last.state.allowedNodeTypes # <<>>) =>
    \A i \in 1..Len(last.result.nodes) :
      ListHas(last.state.allowedNodeTypes, TypeOf(last.result.nodes[i]))

\* a non-empty result of a search that also matches a node of a type the
\* allow-list does not name
C11_Witness ==
  /\ IsBuild
  /\ last.state.searchFields = <<"properties">>
  /\ last.state.allowedNodeTypes = <<"section", "entity", "concept">>
  /\ last.result.nodes # <<>>
  /\ \E id \in searchNodes(allNodes, last.state.searchTerms, last.state.searchFields,
                            last.searchLogic) :
        ~ListHas(last.state.allowedNodeTypes, TypeOf(id))

\* C12: a search that no node of an allowed type matches gives the empty
\* result, whatever expansion would reach (an empty allow-list allows every
\* type).
C12_SeedShortCircuit ==
  [][(/\ last'.op = "buildNetwork"
      /\ SearchUsed(last'.state)
      /\ \A id \in searchNodes(allNodes, last'.state.searchTerms,
                                last'.state.searchFields, last'.searchLogic) :
            /\ last'.state.allowedNodeTypes # <<>>
            /\ ~ListHas(last'.state.allowedNodeTypes, TypeOf(id)))
     => last'.result = EmptyGraph]_vars

\* the name search finds the entity B only, sections alone are allowed, and
\* one step of expansion over reference edges reaches the section A
C12_Witness ==
  /\ IsBuild
  /\ dataset = "ABC"
  /\ last.state.searchTerms = << <<" ", "B">> >>
  /\ last.state.allowedNodeTypes = <<"section">>
  /\ last.state.allowedEdgeTypes = <<"reference", "definition">>
  /\ last.state.expansionDepth = 1
  /\ last.result = EmptyGraph

\* terms without fields, or fields without terms
HalfSpecified(state) == (state.searchTerms = <<>>) # (state.searchFields = <<>>)

\* C13: a half-specified search returns what the query returns with neither
\* terms nor fields.
C13_HalfSearchIsNoSearch ==
  [][(last'.op = "buildNetwork" /\ HalfSpecified(last'.state)) =>
       ResultValue(last'.result)
         = ResultValue(buildNetwork(allNodes, allLinks, adjacencyMap,
                                    [last'.state EXCEPT !.searchTerms = <<>>,
                                                        !.searchFields = <<>>],
                                    last'.searchLogic, last'.nodeRankingMode).result)]_vars

\* terms without fields, and a result with nodes
C13_Witness ==
  /\ IsBuild
  /\ last.state.searchTerms # <<>>
  /\ last.state.searchFields = <<>>
  /\ last.result.nodes # <<>>

\* an edge of an allowed type; an empty allow-list allows none
EdgeAllowed(state, link) ==
  state.allowedEdgeTypes # <<>> /\ ListHas(state.allowedEdgeTypes, link.edge_type)

\* the candidates of an allowed node type with an allowed edge to a candidate
\* (to another candidate only, if strict)
FilteredSet(candidates, state, strict) ==
  {id \in candidates :
     /\ TypeAllowed(state, TypeOf(id))
     /\ \E i \in 1..Len(allLinks) :
          LET link == allLinks[i]
          IN /\ EdgeAllowed(state, link)
             /\ \/ link.source = id /\ link.target \in candidates
                                     /\ (strict => link.target # id)
                \/ link.target = id /\ link.source \in candidates
                                     /\ (strict => link.source # id)}

\* C14 as claimed: matchedCount is the number of candidates of an allowed type
\* with an allowed edge to another candidate, and truncated tells whether it
\* exceeds maxTotalNodes.
C14_MatchedCountStrict ==
  [][last'.op = "buildNetwork" =>
       LET candidates == CandidateNodeIds(allNodes, adjacencyMap, last'.state,
                                          last'.searchLogic)
           n == Cardinality(FilteredSet(candidates, last'.state, TRUE))
       IN /\ last'.result.matchedCount = n
          /\ last'.result.truncated = (n > last'.state.maxTotalNodes)]_vars

\* C14 as amended: matchedCount is the number of candidates of an allowed type
\* with an allowed edge to a candidate, itself included, and truncated tells
\* whether it exceeds maxTotalNodes; the ranking mode plays no part.
C14_MatchedCount ==
  [][last'.op = "buildNetwork" =>
       LET candidates == CandidateNodeIds(allNodes, adjacencyMap, last'.state,
                                          last'.searchLogic)
           n == Cardinality(FilteredSet(candidates, last'.state, FALSE))
       IN /\ last'.result.matchedCount = n
          /\ last'.result.truncated = (n > last'.state.maxTotalNodes)]_vars

\* a node counted for its self-loop alone
C14_Witness ==
  /\ IsBuild
  /\ dataset = "Loop"
  /\ last.state.allowedEdgeTypes = <<"definition">>
  /\ last.result.matchedCount = 1

\* the number of returned edges that end at a node, a self-loop counted at
\* both ends
ReturnedDegree(id) ==
  Cardinality({j \in 1..Len(last.result.links) : last.result.links[j].source = id})
    + Cardinality({j \in 1..Len(last.result.links) : last.result.links[j].target = id})

\* C15 as claimed: the val and the totalVal of every returned node are the
\* number of returned edges at that node.
C15_ValIsReturnedDegree ==
  IsBuild =>
    \A i \in 1..Len(last.returned) :
      /\ last.returned[i].val = ReturnedDegree(last.returned[i].id)
      /\ last.returned[i].totalVal = ReturnedDegree(last.returned[i].id)

\* the place of a node in the snapshot's node list
Position(id) == CHOOSE i \in 1..Len(allNodes) : allNodes[i].id = id

\* the degree of a node in the whole snapshot, by the adjacency index
GlobalDegree(id) == Len(AdjGet(adjacencyMap, id))

\* the number of ends, at a node, of the edges that survive the Filter Stage
LocalDegree(id, candidates, state) ==
  LET Survives(j) ==
        /\ EdgeAllowed(state, allLinks[j])
        /\ allLinks[j].source \in candidates
        /\ allLinks[j].target \in candidates
  IN Cardinality({j \in 1..Len(allLinks) : Survives(j) /\ allLinks[j].source = id})
       + Cardinality({j \in 1..Len(allLinks) : Survives(j) /\ allLinks[j].target = id})

\* k is ranked before d: a higher degree, or the same degree and an earlier
\* place in the snapshot
RankedBefore(k, d, degK, degD) ==
  degK > degD \/ (degK = degD /\ Position(k) < Position(d))

\* C16: a result truncated under global ranking holds maxTotalNodes filtered
\* nodes, each ranked before every filtered node that was dropped, by degree
\* in the adjacency index and then by snapshot order.
C16_GlobalRanking ==
  [][(/\ last'.op = "buildNetwork"
      /\ last'.nodeRankingMode = "global"
      /\ last'.result.truncated)
     => LET candidates == CandidateNodeIds(allNodes, adjacencyMap, last'.state,
                                           last'.searchLogic)
            filtered == FilteredSet(candidates, last'.state, FALSE)
            kept == Range(last'.result.nodes)
        IN /\ kept \subseteq filtered
           /\ Cardinality(kept) = last'.state.maxTotalNodes
           /\ \A k \in kept, d \in filtered \ kept :
                RankedBefore(k, d, GlobalDegree(k), GlobalDegree(d))]_vars

\* a query without search truncated under global ranking, where a kept node
\* and a dropped one have the same degree
C16_Witness ==
  /\ IsBuild
  /\ last.nodeRankingMode = "global"
  /\ last.result.truncated
  /\ last.state.searchTerms = <<>>
  /\ \E k \in Range(last.result.nodes) :
       \E d \in FilteredSet(NodeIds, last.state, FALSE) \ Range(last.result.nodes) :
         GlobalDegree(k) = GlobalDegree(d)

\* C17: a result truncated under subgraph ranking holds maxTotalNodes
\* filtered nodes, each ranked before every filtered node that was dropped,
\* by degree among the edges that survived the Filter Stage and then by
\* snapshot order.
C17_SubgraphRanking ==
  [][(/\ last'.op = "buildNetwork"
      /\ last'.nodeRankingMode = "subgraph"
      /\ last'.result.truncated)
     => LET candidates == CandidateNodeIds(allNodes, adjacencyMap, last'.state,
                                           last'.searchLogic)
            filtered == FilteredSet(candidates, last'.state, FALSE)
            kept == Range(last'.result.nodes)
        IN /\ kept \subseteq filtered
           /\ Cardinality(kept) = last'.state.maxTotalNodes
           /\ \A k \in kept, d \in filtered \ kept :
                RankedBefore(k, d, LocalDegree(k, candidates, last'.state),
                             LocalDegree(d, candidates, last'.state))]_vars

\* a query without search truncated under subgraph ranking, where a kept node
\* and a dropped one have the same degree among the surviving edges, and the
\* kept node has a lower degree in the whole snapshot than a dropped one
C17_Witness ==
  /\ IsBuild
  /\ last.nodeRankingMode = "subgraph"
  /\ last.result.truncated
  /\ last.state.searchTerms = <<>>
  /\ \E k \in Range(last.result.nodes) :
       /\ \E d \in FilteredSet(NodeIds, last.state, FALSE) \ Range(last.result.nodes) :
            LocalDegree(k, NodeIds, last.state) = LocalDegree(d, NodeIds, last.state)
       /\ \E d \in FilteredSet(NodeIds, last.state, FALSE) \ Range(last.result.nodes) :
            GlobalDegree(k) < GlobalDegree(d)

\* the latest call is an expansion
IsExpand == last.op = "expandFromSeeds"

\* the expansion of the latest call, one level deeper
OneDeeper ==
  expandFromSeeds(adjacencyMap, last.seedIds, last.depth + 1, last.maxNeighborsPerNode,
                  last.allowedEdgeTypes)

\* C18: an expansion holds its seeds, and the expansion one level deeper
\* holds every node of it.
C18_DepthMonotone ==
  IsExpand => (last.seedIds \subseteq last.result /\ last.result \subseteq OneDeeper)

\* an expansion that grew at depth 1 and grows again at depth 2
C18_Witness ==
  /\ IsExpand
  /\ last.depth = 1
  /\ last.result # last.seedIds
  /\ OneDeeper # last.result

\* the search of the latest call under OR logic
SameSearchUnderOr == searchNodes(allNodes, last.searchTerms, last.searchFields, "OR")

\* C19: every identifier a search of two or more terms returns under AND
\* logic is returned under OR logic.
C19_AndWithinOr ==
  (last.op = "searchNodes" /\ last.logic = "AND" /\ Len(last.searchTerms) >= 2) =>
    last.result \subseteq SameSearchUnderOr

\* an AND search of two terms that matches a node, where OR matches more
C19_Witness ==
  /\ last.op = "searchNodes"
  /\ last.logic = "AND"
  /\ Len(last.searchTerms) >= 2
  /\ last.result # {}
  /\ SameSearchUnderOr # last.result

\* C20: on the snapshot A, B, C the query of scenario 1 returns the nodes A,
\* B and C, the edges A-B and B-C, truncated false and matchedCount 3.
C20_Scenario1 ==
  (IsBuild /\ dataset = "ABC" /\ last.state = Scenario1) =>
    /\ Range(last.result.nodes) = {"A", "B", "C"}
    /\ Len(last.result.nodes) = 3
    /\ Range(last.result.links) = {RawLink("A", "B", "reference"),
                                   RawLink("B", "C", "definition")}
    /\ Len(last.result.links) = 2
    /\ last.result.truncated = FALSE
    /\ last.result.matchedCount = 3

\* the query of scenario 1 has run on the snapshot A, B, C
C20_Witness ==
  /\ IsBuild
  /\ dataset = "ABC"
  /\ last.state = Scenario1
  /\ last.result.nodes # <<>>

\* C21: on the snapshot A, B, C the query of scenario 2 (scenario 1 with the
\* edge types restricted to definition) returns the nodes B and C, the edge
\* B-C and matchedCount 2; A is not returned.
C21_Scenario2 ==
  (IsBuild /\ dataset = "ABC" /\ last.state = Scenario2) =>
    /\ Range(last.result.nodes) = {"B", "C"}
    /\ Len(last.result.nodes) = 2
    /\ Range(last.result.links) = {RawLink("B", "C", "definition")}
    /\ Len(last.result.links) = 1
    /\ last.result.matchedCount = 2
    /\ "A" \notin Range(last.result.nodes)

\* the query of scenario 2 has run on the snapshot A, B, C, where A has an
\* edge of a type the query does not allow
C21_Witness ==
  /\ IsBuild
  /\ dataset = "ABC"
  /\ last.state = Scenario2
  /\ last.result.nodes # <<>>
  /\ \E i \in 1..Len(allLinks) :
       allLinks[i].source = "A" /\ ~ ListHas(Scenario2.allowedEdgeTypes, allLinks[i].edge_type)

\* the filtered set of the call just made, taken on the snapshot it found
FilteredBefore ==
  FilteredSet(CandidateNodeIds(allNodes, adjacencyMap, last'.state, last'.searchLogic),
              last'.state, FALSE)

\* the call just made is the case of scenario 3: maxTotalNodes 1, global
\* ranking, a filtered set with A of degree 3 as its only maximum and C of
\* degree 1
Scenario3Case ==
  /\ last'.op = "buildNetwork"
  /\ last'.state.maxTotalNodes = 1
  /\ last'.nodeRankingMode = "global"
  /\ {"A", "C"} \subseteq FilteredBefore
  /\ GlobalDegree("A") = 3
  /\ GlobalDegree("C") = 1
  /\ \A id \in FilteredBefore \ {"A"} : GlobalDegree(id) < 3

\* C22: with maxTotalNodes 1 and global ranking, on a filtered set where A
\* has degree 3 in the snapshot and is the only maximum and C has degree 1,
\* buildNetwork returns the node A alone, truncated true, and the size of the
\* filtered set as matchedCount.
C22_Scenario3 ==
  [][Scenario3Case =>
       /\ last'.result.nodes = <<"A">>
       /\ last'.result.truncated = TRUE
       /\ last'.result.matchedCount = Cardinality(FilteredBefore)]_vars

\* scenario 3 has run on the hub snapshot: A alone is returned out of two or
\* more connected nodes
C22_Witness ==
  /\ IsBuild
  /\ dataset = "Star"
  /\ last.state.maxTotalNodes = 1
  /\ last.nodeRankingMode = "global"
  /\ last.result.nodes = <<"A">>
  /\ last.result.truncated
  /\ last.result.matchedCount >= 2
  /\ GlobalDegree("A") = 3
  /\ GlobalDegree("C") = 1

\* an edge of the snapshot joins a and b, in either direction, with a type of T
Joined(a, b, T) ==
  \E i \in 1..Len(allLinks) :
    /\ ListHas(T, allLinks[i].edge_type)
    /\ \/ allLinks[i].source = a /\ allLinks[i].target = b
       \/ allLinks[i].source = b /\ allLinks[i].target = a

\* the identifiers in the snapshot's links
LinkedIds ==
  {allLinks[i].source : i \in 1..Len(allLinks)} \cup {allLinks[i].target : i \in 1..Len(allLinks)}

\* the identifiers at a distance of at most d from a seed: the ends of the
\* walks of at most d edges of a type of T that start at a seed
WithinDistance(seeds, d, T) ==
  seeds \cup
  {id \in LinkedIds :
     \E n \in 1..d : \E walk \in [1..(n + 1) -> LinkedIds] :
       /\ walk[1] \in seeds
       /\ walk[n + 1] = id
       /\ \A j \in 1..n : Joined(walk[j], walk[j + 1], T)}

\* C23: an expansion without a neighbour cap and with a non-empty list of
\* edge types T returns exactly the identifiers whose distance from a seed,
\* over edges of a type in T taken in both directions, is at most the depth.
C23_ExactBoundedBFS ==
  (IsExpand /\ last.maxNeighborsPerNode = 0 /\ last.allowedEdgeTypes # <<>>) =>
    last.result = WithinDistance(last.seedIds, last.depth, last.allowedEdgeTypes)

\* an uncapped expansion of depth 2 over definition edges that reached a node
\* at distance 2
C23_Witness ==
  /\ IsExpand
  /\ last.maxNeighborsPerNode = 0
  /\ last.allowedEdgeTypes = <<"definition">>
  /\ last.depth = 2
  /\ last.result # WithinDistance(last.seedIds, 1, last.allowedEdgeTypes)

\* an adjacency entry passes the edge-type filter of expandFromSeeds, which
\* lets every entry pass when the list of types is empty
PassesFilter(entry, T) == T = <<>> \/ ListHas(T, entry.edgeType)

\* the neighbours a layer node considers under the cap k: those of the entries
\* that pass the filter and have fewer than k passing entries before them, all
\* that pass when k is not positive
Considered(nodeId, k, T) ==
  LET list == AdjGet(adjacencyMap, nodeId)
      PassingUpTo(i) == Cardinality({j \in 1..i : PassesFilter(list[j], T)})
  IN {list[i].neighborId :
        i \in {j \in 1..Len(list) :
                 PassesFilter(list[j], T) /\ (k <= 0 \/ PassingUpTo(j) <= k)}}

RECURSIVE ExpandIterations(_, _, _, _, _, _, _)
\* the number of times the body of the for loop runs from iteration i on
ExpandIterations(adj, expanded, currentLayer, i, depth, maxNeighborsPerNode, allowedEdgeTypes) ==
  IF i >= depth THEN 0
  ELSE LET nextLayer ==
             NextLayer(adj, expanded, currentLayer, maxNeighborsPerNode, allowedEdgeTypes)
       IN IF nextLayer = {} THEN 1
          ELSE 1 + ExpandIterations(adj, expanded \cup nextLayer, nextLayer, i + 1, depth,
                                    maxNeighborsPerNode, allowedEdgeTypes)

\* the iterations of the latest expansion, were it called with depth d
IterationsAt(d) ==
  ExpandIterations(adjacencyMap, last.seedIds, last.seedIds, 0, d,
                   last.maxNeighborsPerNode, last.allowedEdgeTypes)

\* the result of the latest expansion, were it called with depth d
ResultAt(d) ==
  expandFromSeeds(adjacencyMap, last.seedIds, d, last.maxNeighborsPerNode,
                  last.allowedEdgeTypes)

\* the layer iteration j of the latest expansion walks over: the seeds, then
\* what the iteration before added
LayerAt(j) == IF j = 1 THEN last.seedIds ELSE ResultAt(j - 1) \ ResultAt(j - 2)

\* the layer the last iteration the latest expansion ran walked over
LastLayer ==
  LET n == IterationsAt(last.depth)
  IN IF n = 0 THEN {} ELSE LayerAt(n)

\* C24: every iteration an expansion runs adds, for each node of its layer,
\* the neighbours of the first k adjacency entries that pass the edge-type
\* filter, in adjacency order, whether expanded before or not, so at most k
\* new nodes per layer node; with k = 0 it adds the neighbours of all passing
\* entries.
C24_NeighborCap ==
  (IsExpand /\ last.depth >= 1) =>
    LET n == IterationsAt(last.depth)
    IN /\ last.result = ResultAt(n)
       /\ \A j \in 1..n :
            /\ ResultAt(j) =
                 ResultAt(j - 1) \cup
                 UNION {Considered(id, last.maxNeighborsPerNode, last.allowedEdgeTypes) :
                          id \in LayerAt(j)}
            /\ last.maxNeighborsPerNode > 0 =>
                 Cardinality(ResultAt(j) \ ResultAt(j - 1))
                   <= last.maxNeighborsPerNode * Cardinality(LayerAt(j))

\* a capped expansion where a node of the last layer spends its cap on an
\* entry that leads to an expanded node and so leaves out an unexpanded
\* neighbour
C24_Witness ==
  /\ IsExpand
  /\ last.depth >= 1
  /\ last.maxNeighborsPerNode > 0
  /\ \E id \in LastLayer :
       /\ Considered(id, last.maxNeighborsPerNode, last.allowedEdgeTypes)
            \subseteq ResultAt(IterationsAt(last.depth) - 1)
       /\ Considered(id, 0, last.allowedEdgeTypes) \ last.result # {}

\* the identifiers the unbounded, uncapped expansion of the latest call's
\* seeds reaches beyond the seeds
ReachableBeyondSeeds ==
  expandFromSeeds(adjacencyMap, last.seedIds, Cardinality(LinkedIds), 0,
                  last.allowedEdgeTypes) \ last.seedIds

\* C25: an expansion runs at most min(depth, number of reachable
\* identifiers) + 1 iterations, every iteration but the last one adds a node,
\* and once an iteration adds nothing every greater depth returns the same
\* set.
C25_StopsAtFixedPoint ==
  IsExpand =>
    LET n == IterationsAt(last.depth)
    IN /\ n <= Min(last.depth, Cardinality(ReachableBeyondSeeds)) + 1
       /\ n <= last.depth
       /\ \A j \in 1..(n - 1) : ResultAt(j) # ResultAt(j - 1)
       /\ n < last.depth => ResultAt(n) = ResultAt(n - 1)
       /\ \A j \in 1..n :
            ResultAt(j) = ResultAt(j - 1) =>
              \A d \in j..(MaxLayers + 1) :
                ResultAt(d) = ResultAt(j) /\ IterationsAt(d) = j

\* an expansion that stopped before its depth, after two iterations that
\* added nodes
C25_Witness ==
  /\ IsExpand
  /\ IterationsAt(last.depth) = 3
  /\ last.depth = 3
  /\ ResultAt(3) = ResultAt(2)
  /\ ResultAt(2) # ResultAt(1)
  /\ last.result = ResultAt(2)

\* the ends of the links in edge-list order, the source end of a link before
\* its target end: where the end is, and the adjacency entry it stands for
LinkEnds ==
  AsList([k \in 1..(2 * Len(allLinks)) |->
            LET link == allLinks[(k + 1) \div 2]
            IN IF k % 2 = 1
               THEN <<link.source, [neighborId |-> link.target, edgeType |-> link.edge_type]>>
               ELSE <<link.target, [neighborId |-> link.source, edgeType |-> link.edge_type]>>])

\* the entries of the link ends at id, in edge-list order
EndsAt(id) ==
  LET At(end) == end[1] = id
      ends == SelectSeq(LinkEnds, At)
  IN AsList([i \in 1..Len(ends) |-> ends[i][2]])

\* C26: the adjacency list of the source of every link holds the link's
\* target and type and the list of its target holds its source and type; a
\* list has one entry per link end at its node, a self-loop giving two; the
\* lists are in edge-list order; without links the index is empty.
C26_AdjacencySymmetry ==
  /\ \A i \in 1..Len(allLinks) :
       LET link == allLinks[i]
       IN /\ [neighborId |-> link.target, edgeType |-> link.edge_type]
               \in Range(AdjGet(adjacencyMap, link.source))
          /\ [neighborId |-> link.source, edgeType |-> link.edge_type]
               \in Range(AdjGet(adjacencyMap, link.target))
  /\ \A id \in NodeIds \cup LinkedIds :
       /\ Len(AdjGet(adjacencyMap, id)) = RawDegree(allLinks, id)
       /\ AdjGet(adjacencyMap, id) = EndsAt(id)
  /\ DOMAIN adjacencyMap = LinkedIds
  /\ allLinks = <<>> => adjacencyMap = << >>

\* an index built from a self-loop at A followed by a link that ends at A
C26_Witness ==
  /\ Len(allLinks) = 2
  /\ allLinks[1].source = "A" /\ allLinks[1].target = "A"
  /\ allLinks[2].source = "B" /\ allLinks[2].target = "A"
  /\ Len(AdjGet(adjacencyMap, "A")) = 3
  /\ AdjGet(adjacencyMap, "A")[3].neighborId = "B"

\* the FilteredGraph of the query and ranking mode of the call just made with
\* maxTotalNodes one higher, on the snapshot as that call found it
OneMoreBefore ==
  buildNetwork(allNodes, allLinks, adjacencyMap, [last'.state EXCEPT !.maxTotalNodes = @ + 1],
               last'.searchLogic, last'.nodeRankingMode).result

\* C27: every node and every edge a buildNetwork call with maxTotalNodes m
\* returns, for every m from 1 on, is returned on the same snapshot, as the
\* call found it, by the same query and ranking mode with maxTotalNodes
\* m + 1.
C27_CapMonotone ==
  [][(last'.op = "buildNetwork" /\ calls' = calls + 1) =>
       LET oneMore == OneMoreBefore
       IN /\ Range(last'.result.nodes) \subseteq Range(oneMore.nodes)
          /\ Range(last'.result.links) \subseteq Range(oneMore.links)]_vars

\* the FilteredGraph of the query and ranking mode of the latest call with
\* maxTotalNodes m, on the snapshot as it is now
WithCapNow(m) ==
  buildNetwork(allNodes, allLinks, adjacencyMap, [last.state EXCEPT !.maxTotalNodes = m],
               last.searchLogic, last.nodeRankingMode).result

\* a call without a search, which reads nothing that a call writes, was cut
\* to its maxTotalNodes and returned an edge; one node more brings a node and
\* an edge more, and still not every connected node
C27_Witness ==
  /\ IsBuild
  /\ ~ SearchUsed(last.state)
  /\ last.result.truncated
  /\ last.result.links # <<>>
  /\ last.result = WithCapNow(last.state.maxTotalNodes)
  /\ Range(last.result.nodes) # Range(WithCapNow(last.state.maxTotalNodes + 1).nodes)
  /\ Range(last.result.links) # Range(WithCapNow(last.state.maxTotalNodes + 1).links)
  /\ WithCapNow(last.state.maxTotalNodes + 1).truncated

\* the orderings of a list
Orderings(seq) ==
  {AsList([i \in 1..Len(seq) |-> seq[p[i]]]) :
     p \in {q \in [1..Len(seq) -> 1..Len(seq)] : \A i, j \in 1..Len(seq) : q[i] = q[j] => i = j}}

\* the search of the latest call with other terms and fields, same logic
SearchWith(searchTerms, searchFields) ==
  searchNodes(allNodes, searchTerms, searchFields, last.logic)

\* the search of the latest call over the first i terms, over the rest
FirstTerms(i) == SearchWith(SubSeq(last.searchTerms, 1, i), last.searchFields)
RestTerms(i) ==
  SearchWith(SubSeq(last.searchTerms, i + 1, Len(last.searchTerms)), last.searchFields)

\* C28: a search over a term list cut into two non-empty lists returns the
\* union of the two searches under OR and their intersection under AND, and
\* a search returns the same set whatever the order of its terms and of its
\* fields.
C28_SearchDistributes ==
  last.op = "searchNodes" =>
    /\ \A i \in 1..(Len(last.searchTerms) - 1) :
         /\ last.logic = "OR" => last.result = FirstTerms(i) \cup RestTerms(i)
         /\ last.logic = "AND" => last.result = FirstTerms(i) \cap RestTerms(i)
    /\ \A terms \in Orderings(last.searchTerms), fields \in Orderings(last.searchFields) :
         SearchWith(terms, fields) = last.result

\* a search of three terms over three fields whose first term and whose other
\* terms match different, overlapping sets of nodes
C28_Witness ==
  /\ last.op = "searchNodes"
  /\ Len(last.searchTerms) = 3
  /\ Len(last.searchFields) = 3
  /\ FirstTerms(1) \ RestTerms(1) # {}
  /\ RestTerms(1) \ FirstTerms(1) # {}
  /\ FirstTerms(1) \cap RestTerms(1) # {}

\* the call just made, had its query neither terms nor fields
WithoutSearch ==
  buildNetwork(allNodes, allLinks, adjacencyMap,
               Query(NoSearch, last'.state.allowedNodeTypes, last'.state.allowedEdgeTypes,
                     last'.state.expansionDepth, last'.state.maxNodesPerExpansion,
                     last'.state.maxTotalNodes),
               last'.searchLogic, last'.nodeRankingMode).result

\* C29: searchNodes with an empty term list returns no identifier under OR
\* and the identifiers of all nodes under AND, whatever the fields, and
\* buildNetwork with an empty term list returns what it returns without a
\* search, under either logic.
C29_EmptyTermList ==
  [][/\ (last'.op = "searchNodes" /\ last'.searchTerms = <<>>) =>
          /\ last'.logic = "OR" => last'.result = {}
          /\ last'.logic = "AND" => last'.result = NodeIds
     /\ (last'.op = "buildNetwork" /\ last'.state.searchTerms = <<>>) =>
          ResultValue(last'.result) = ResultValue(WithoutSearch)]_vars

\* a standalone search without terms, over fields, that returned every node
C29_Witness ==
  /\ last.op = "searchNodes"
  /\ last.searchTerms = <<>>
  /\ last.searchFields # <<>>
  /\ last.logic = "AND"
  /\ last.result = NodeIds
  /\ NodeIds # {}

\* the cache key of a loadGraph call
KeyOf(call) == cacheKey(call.title, call.timeScope)

\* the step starts a loadGraph call
CallStarts == Len(loads') = Len(loads) + 1

\* the call the step starts
Started == loads'[Len(loads')]

\* the step writes the entry of key k: a new entry, or another object
EntryWritten(k) ==
  /\ k \in DOMAIN cachedGraphs'
  /\ k \notin DOMAIN cachedGraphs \/ cachedGraphs'[k] # cachedGraphs[k]

\* C30: in every interleaving of loadGraph calls, an entry is written only by
\* a call for its key whose fetch has just succeeded and which returns the
\* object written; a call whose fetch fails leaves the cache as it was, and
\* a call that starts without an entry for its key issues a fetch; a call
\* that starts with an entry for its key returns the cached object and
\* issues no fetch.
C30_SnapshotCache ==
  [][/\ \A k \in DOMAIN cachedGraphs' :
          EntryWritten(k) =>
            \E i \in 1..Len(loads) :
              /\ KeyOf(loads[i]) = k
              /\ loads[i].pc = "fetching" /\ loads[i].fetched
              /\ loads'[i].pc = "returned"
              /\ loads'[i].graphData = cachedGraphs'[k]
     /\ DOMAIN cachedGraphs \subseteq DOMAIN cachedGraphs'
     /\ \A i \in 1..Len(loads) :
          (loads[i].pc = "fetching" /\ loads'[i].pc = "threw") =>
            cachedGraphs' = cachedGraphs
     /\ (CallStarts /\ KeyOf(Started) \notin DOMAIN cachedGraphs) =>
          Started.pc = "fetching" /\ Started.fetched
     /\ (CallStarts /\ KeyOf(Started) \in DOMAIN cachedGraphs) =>
          /\ Started.pc = "returned"
          /\ Started.graphData = cachedGraphs[KeyOf(Started)]
          /\ ~ Started.fetched
          /\ cachedGraphs' = cachedGraphs]_vars

\* three calls for one key: the fetch of the first failed, the second fetched
\* again and filled the cache, the third returned the second's object
\* without a fetch
C30_Witness ==
  /\ Len(loads) = 3
  /\ KeyOf(loads[1]) = KeyOf(loads[2]) /\ KeyOf(loads[2]) = KeyOf(loads[3])
  /\ loads[1].pc = "threw"
  /\ loads[2].pc = "returned" /\ loads[2].fetched
  /\ loads[3].pc = "returned" /\ ~ loads[3].fetched
  /\ loads[3].graphData = loads[2].graphData
  /\ cachedGraphs[KeyOf(loads[3])] = loads[3].graphData

=============================================================================
